---- MODULE Spec2Model ----
(***************************************************************************)
(* Admission control, provider allocation and the batch orchestrator of    *)
(* the publishing worker.                                                  *)
(*                                                                         *)
(*   SpecQuota  the quota ledger alone (LaunchGroupService): workers call  *)
(*              can_execute_run / on_run_started / on_run_finished in any  *)
(*              order, each call a transaction on the locked group row.    *)
(*   Spec       PublishingJob.process_pending_runs run by two workers over *)
(*              one job store and one quota ledger.                        *)
(*   SpecAlloc  the provider allocator's ordered fallback chain.           *)
(*   SpecStart  start_session of the container providers, poll by poll.    *)
(*   SpecUpdate update_run_status called by two workers, each call a       *)
(*              database session that reads, then commits.                 *)
(*   SpecSelect BrowserProviderAllocator.allocate over the profile tables   *)
(*              it can be given.                                           *)
(*   SpecOutage Spec with the store becoming unreachable for a worker.      *)
(*   SpecFetch  the fetch of process_pending_runs (get_pending_runs and    *)
(*              the grouping by account name) over the job stores and      *)
(*              clock readings it can meet.                                *)
(***************************************************************************)
EXTENDS Integers, Sequences, FiniteSets, TLC

VARIABLES
    groups,      \* launch_groups rows: group id -> row (caps, counters, windows)
    rowLock,     \* group id -> worker holding the row lock (SELECT ... FOR UPDATE)
    txn,         \* worker -> the row its open quota session has loaded, or NoRow
    now,         \* the UTC clock, in ticks
    calls,       \* group id -> committed on_run_started / on_run_finished calls
    profileStatus,  \* browser_provider_profiles.status, by profile id
    liveSessions,   \* provider code -> sessions started and not stopped
    lastAlloc,      \* what the last allocate_for_dummy_account call did
    accounts,    \* dummy_accounts rows: account id -> [name, launch_group_id]
    assets,      \* post id -> whether the post has its asset linked
    status,      \* publishing_posts.status, by post id
    events,      \* publishing_run_events rows appended, with the worker that wrote them
    jobDir,      \* post id -> whether the job-scoped asset directory exists
    retry_count, \* publishing_runs.retry_count, by run id
    wk,          \* worker -> the locals of its process_pending_runs call
    gh,          \* worker -> what it has done so far in this call (history)
    groups0,     \* the launch_groups rows as they were before any call
    ps,          \* the locals of a container provider's start_session call
    upd,         \* worker -> the locals of its update_run_status call
    sel          \* an allocate call: the rows it is given and what it selected

ledgerVars == <<groups, rowLock, txn, now, calls>>
allocVars == <<profileStatus, liveSessions, lastAlloc>>
storeVars == <<accounts, assets, status, events, jobDir, retry_count>>
jobVars == <<wk, gh, groups0, ps, upd, sel>>
vars == <<ledgerVars, allocVars, storeVars, jobVars>>

----------------------------------------------------------------------------
(* Bounds of the model *)

\* the clock stops advancing at MaxNow
MaxNow == 4
\* process_pending_runs(limit): the first worker's limit, and the others'
Limit == 3
SmallLimit == 1
\* under SpecQuota on_run_started and on_run_finished are called at most
\* MaxCount times each for a group; the monthly caps are set from it
MaxCount == 3
\* under SpecAlloc allocate_for_dummy_account is not called any more with
\* MaxLive sessions running
MaxLive == 2

\* calendar scale of the model clock
TicksPerDay == 2
DaysPerMonth == 2
MonthsPerYear == 2

Workers == {"w1", "w2"}
NoWorker == "none"

\* no start_session call of a container provider is under way
NoCall ==
    [pc |-> "idle", provider |-> "none", retries |-> 0, host_port |-> FALSE,
     port_open |-> FALSE, i |-> 0, ready |-> FALSE, container |-> "none",
     raised |-> "none", code |-> "none", session |-> FALSE, polls |-> 0,
     checks |-> 0, stops |-> 0, stop_raised |-> FALSE]
Groups == {1, 2}

\* Python None / SQL NULL in an integer or datetime column
NULL == -1
NoRow == [none |-> TRUE]

----------------------------------------------------------------------------
(* datetime arithmetic of can_execute_run *)

\* datetime.date(): the calendar day of an instant
DateOf(t) == t \div TicksPerDay

\* (now - start).days: timedelta.days is the floor of the difference in days
DeltaDays(t, start) == (t - start) \div TicksPerDay

MonthIndex(t) == t \div (TicksPerDay * DaysPerMonth)
\* datetime.month, datetime.year
MonthOf(t) == (MonthIndex(t) % MonthsPerYear) + 1
YearOf(t) == MonthIndex(t) \div MonthsPerYear

----------------------------------------------------------------------------
(* LaunchGroupService, on one loaded row *)

ResetDayWindow_ByInstant(row, t) ==
    IF row.day_window_start = NULL \/ row.day_window_start # t
    THEN [row EXCEPT !.current_day_run_count = 0, !.day_window_start = t]
    ELSE row

ResetDayWindow_Rolling24h(row, t) ==
    IF row.day_window_start = NULL \/ DeltaDays(t, row.day_window_start) >= 1
    THEN [row EXCEPT !.current_day_run_count = 0, !.day_window_start = t]
    ELSE row

ResetDayWindow_ClearsConcurrent(row, t) ==
    IF row.day_window_start = NULL \/ DateOf(row.day_window_start) < DateOf(t)
    THEN [row EXCEPT !.current_day_run_count = 0, !.day_window_start = t,
                     !.current_concurrent_runs = 0]
    ELSE row

\* 1. Check/Reset Day Window
ResetDayWindow(row, t) ==
    IF row.day_window_start = NULL
       \/ DeltaDays(t, row.day_window_start) >= 1
       \/ DateOf(row.day_window_start) # DateOf(t)
    THEN IF row.day_window_start = NULL \/ DateOf(row.day_window_start) < DateOf(t)
         THEN [row EXCEPT !.current_day_run_count = 0, !.day_window_start = t]
         ELSE row
    ELSE row

\* 2. Check/Reset Month Window
ResetMonthWindow(row, t) ==
    IF row.month_window_start = NULL
       \/ MonthOf(row.month_window_start) # MonthOf(t)
       \/ YearOf(row.month_window_start) # YearOf(t)
    THEN [row EXCEPT !.current_month_run_count = 0, !.month_window_start = t]
    ELSE row

\* 3. Check Concurrent: auto-reset if negative
ResetNegativeConcurrent(row) ==
    IF row.current_concurrent_runs < 0
    THEN [row EXCEPT !.current_concurrent_runs = 0]
    ELSE row

\* the row as can_execute_run leaves it in the session
CanExecuteRunRow(row, t) ==
    ResetNegativeConcurrent(ResetMonthWindow(ResetDayWindow(row, t), t))

ValidateLimits_OffByOne(row) ==
    /\ ~(row.max_concurrent_runs # NULL
          /\ row.current_concurrent_runs > row.max_concurrent_runs)
    /\ ~(row.max_runs_per_day # NULL
          /\ row.current_day_run_count > row.max_runs_per_day)
    /\ ~(row.max_runs_per_month # NULL
          /\ row.current_month_run_count > row.max_runs_per_month)

QuotaHit_DayFirst(row) ==
    IF row.max_runs_per_day # NULL
       /\ row.current_day_run_count >= row.max_runs_per_day
    THEN "day"
    ELSE IF row.max_concurrent_runs # NULL
            /\ row.current_concurrent_runs >= row.max_concurrent_runs
    THEN "concurrent"
    ELSE IF row.max_runs_per_month # NULL
            /\ row.current_month_run_count >= row.max_runs_per_month
    THEN "month"
    ELSE "none"

QuotaHit_ZeroIsNoCap(row) ==
    IF row.max_concurrent_runs \notin {NULL, 0}
       /\ row.current_concurrent_runs >= row.max_concurrent_runs
    THEN "concurrent"
    ELSE IF row.max_runs_per_day \notin {NULL, 0}
            /\ row.current_day_run_count >= row.max_runs_per_day
    THEN "day"
    ELSE IF row.max_runs_per_month \notin {NULL, 0}
            /\ row.current_month_run_count >= row.max_runs_per_month
    THEN "month"
    ELSE "none"

\* Validate Limits: the three `if ... return False` in the order written; the
\* cap named in the "Quota Hit" warning, or "none" when `return True` is reached
QuotaHit(row) ==
    IF row.max_concurrent_runs # NULL
       /\ row.current_concurrent_runs >= row.max_concurrent_runs
    THEN "concurrent"
    ELSE IF row.max_runs_per_day # NULL
            /\ row.current_day_run_count >= row.max_runs_per_day
    THEN "day"
    ELSE IF row.max_runs_per_month # NULL
            /\ row.current_month_run_count >= row.max_runs_per_month
    THEN "month"
    ELSE "none"

\* Validate Limits: False on the first cap that is at or over its limit
ValidateLimits(row) == QuotaHit(row) = "none"

\* the value can_execute_run returns
CanExecuteRun(row, t) == ValidateLimits(CanExecuteRunRow(row, t))

OnRunStarted_PerAttempt(row) ==
    [row EXCEPT !.current_concurrent_runs = @ + 1,
                !.current_day_run_count = @ + 2,
                !.current_month_run_count = @ + 2]

\* on_run_started: increments the three counters
OnRunStarted(row) ==
    [row EXCEPT !.current_concurrent_runs = @ + 1,
                !.current_day_run_count = @ + 1,
                !.current_month_run_count = @ + 1]

OnRunFinished_Skipped(row) == row

OnRunFinished_NoFloor(row) ==
    [row EXCEPT !.current_concurrent_runs = @ - 1]

OnRunFinished_GivesBackDay(row) ==
    [row EXCEPT !.current_concurrent_runs = IF @ - 1 > 0 THEN @ - 1 ELSE 0,
                !.current_day_run_count = IF @ - 1 > 0 THEN @ - 1 ELSE 0]

\* on_run_finished: decrements the concurrent counter, floored at 0
OnRunFinished(row) ==
    [row EXCEPT !.current_concurrent_runs =
                    IF @ - 1 > 0 THEN @ - 1 ELSE 0]

----------------------------------------------------------------------------
(* The quota session: one transaction on the locked row *)

SelectForUpdate_Snapshot(w, g) ==
    /\ rowLock[g] = NoWorker
    /\ txn[w] = NoRow
    /\ rowLock' = [rowLock EXCEPT ![g] = w]
    /\ txn' = [txn EXCEPT ![w] = groups0[g]]

\* select(LaunchGroup).where(id == g).with_for_update(): waits for the row
\* lock, takes it and loads the row
SelectForUpdate(w, g) ==
    /\ rowLock[g] = NoWorker
    /\ txn[w] = NoRow
    /\ rowLock' = [rowLock EXCEPT ![g] = w]
    /\ txn' = [txn EXCEPT ![w] = groups[g]]

\* session.commit(): writes the row and releases the lock
Commit(w, g, row) ==
    /\ groups' = [groups EXCEPT ![g] = row]
    /\ rowLock' = [rowLock EXCEPT ![g] = NoWorker]
    /\ txn' = [txn EXCEPT ![w] = NoRow]

\* the session is closed without a commit: the changes are rolled back
Rollback(w, g) ==
    /\ rowLock' = [rowLock EXCEPT ![g] = NoWorker]
    /\ txn' = [txn EXCEPT ![w] = NoRow]
    /\ UNCHANGED groups

NoteStart(g) == calls' = [calls EXCEPT ![g].on_start = @ + 1]
\* unmatched counts the on_run_finished calls made while every on_run_started
\* call so far already had its on_run_finished
NoteFinish(g) ==
    LET outstanding == calls[g].on_start - (calls[g].on_finish - calls[g].unmatched)
    IN calls' = [calls EXCEPT ![g].on_finish = @ + 1,
                              ![g].unmatched = IF outstanding <= 0 THEN @ + 1 ELSE @]
NoteUnadmitted(g) == calls' = [calls EXCEPT ![g].on_start = @ + 1, ![g].unadmitted = @ + 1]

----------------------------------------------------------------------------
(* Initial rows of launch_groups *)

Row(mc, md, mm, cc, cd, cm, ds, ms) ==
    [max_concurrent_runs |-> mc, max_runs_per_day |-> md, max_runs_per_month |-> mm,
     current_concurrent_runs |-> cc, current_day_run_count |-> cd,
     current_month_run_count |-> cm, day_window_start |-> ds,
     month_window_start |-> ms]

\* max_concurrent_runs and max_runs_per_day are nullable, max_runs_per_month is
\* not; the counters default to 0 and the window starts to NULL
FreshRows ==
    { Row(mc, md, mm, 0, 0, 0, NULL, NULL) :
        mc \in {NULL, 0, 1, 2}, md \in {NULL, 0, 1}, mm \in {MaxCount - 1} }

----------------------------------------------------------------------------
(* Browser providers: what start_session does for each way its calls go *)

GOLOGIN == "GOLOGIN"
NOVNC_AWS == "NOVNC_AWS"
ProviderCodes == {GOLOGIN, NOVNC_AWS}

\* GoLoginProvider.start_session: the words the SDK's error text holds
GoLoginTexts == {{}, {"limit"}, {"429"}, {"banned"}, {"limit", "429", "banned"}}
GoLoginCauses ==
    {[kind |-> "ok", words |-> {}], [kind |-> "no_token", words |-> {}]}
    \cup {[kind |-> "sdk_error", words |-> ws] : ws \in GoLoginTexts}

\* the except clause of GoLoginProvider.start_session: the first matching word
GoLoginErrorCode(words) ==
    IF "limit" \in words THEN "GOLOGIN_LIMIT_REACHED"
    ELSE IF "429" \in words THEN "GOLOGIN_API_429"
    ELSE IF "banned" \in words THEN "GOLOGIN_PROFILE_BANNED"
    ELSE "GOLOGIN_UNKNOWN"

GoLoginStartSession_Swallowed(cause) ==
    [ok |-> TRUE, code |-> "none", left |-> "none"]

\* [ok, code, left]: a session or the error code, and the container left behind
GoLoginStartSession(cause) ==
    IF cause.kind = "ok" THEN [ok |-> TRUE, code |-> "none", left |-> "none"]
    ELSE IF cause.kind = "no_token"
    THEN [ok |-> FALSE, code |-> "GOLOGIN_AUTH_FAILED", left |-> "none"]
    ELSE [ok |-> FALSE, code |-> GoLoginErrorCode(cause.words), left |-> "none"]

\* NovncAwsProvider.start_session: how the container start goes
NovncAwsCauses ==
    {[kind |-> k, words |-> {}] :
        k \in {"ok", "no_client", "run_api_error", "poll_api_error",
               "exited", "port_timeout", "ready_timeout"}}

NovncAwsStartSession_NeverStarts(cause) ==
    [ok |-> FALSE, code |-> "NOVNC_AWS_UNKNOWN", left |-> "none"]

\* The BrowserProviderError raised inside the try block (container exited,
\* timeouts) is caught by the trailing `except Exception` and raised again as
\* NOVNC_AWS_UNKNOWN; only the timeouts stop and remove the container first.
NovncAwsStartSession(cause) ==
    CASE cause.kind = "ok" ->
            [ok |-> TRUE, code |-> "none", left |-> "none"]
      [] cause.kind = "no_client" ->
            [ok |-> FALSE, code |-> "NOVNC_AWS_DOCKER_ERROR", left |-> "none"]
      [] cause.kind = "run_api_error" ->
            [ok |-> FALSE, code |-> "NOVNC_AWS_DOCKER_ERROR", left |-> "none"]
      [] cause.kind = "poll_api_error" ->
            [ok |-> FALSE, code |-> "NOVNC_AWS_DOCKER_ERROR", left |-> "running"]
      [] cause.kind = "exited" ->
            [ok |-> FALSE, code |-> "NOVNC_AWS_UNKNOWN", left |-> "exited"]
      [] cause.kind = "port_timeout" ->
            [ok |-> FALSE, code |-> "NOVNC_AWS_UNKNOWN", left |-> "none"]
      [] cause.kind = "ready_timeout" ->
            [ok |-> FALSE, code |-> "NOVNC_AWS_UNKNOWN", left |-> "none"]

StartCauses(code) == IF code = GOLOGIN THEN GoLoginCauses ELSE NovncAwsCauses

\* provider.start_session(profile, trace_id) of the provider registered for code
StartSession(code, cause) ==
    IF code = GOLOGIN THEN GoLoginStartSession(cause) ELSE NovncAwsStartSession(cause)

----------------------------------------------------------------------------
(* Accounts and their browser profiles *)

Accounts == {1, 2}

\* browser_provider_profiles, in the order the profile query returns them
\* (is_default first, then most recently used): the account's default profile
\* is a container profile, so the query order is not the priority order
Profiles == <<
    [id |-> 1, dummy_account_id |-> 1, provider |-> NOVNC_AWS],
    [id |-> 2, dummy_account_id |-> 1, provider |-> GOLOGIN],
    [id |-> 3, dummy_account_id |-> 2, provider |-> NOVNC_AWS],
    [id |-> 4, dummy_account_id |-> 2, provider |-> NOVNC_AWS] >>

ProfileIds == {Profiles[i].id : i \in DOMAIN Profiles}
ProfileById(id) == CHOOSE pr \in {Profiles[i] : i \in DOMAIN Profiles} : pr.id = id
ProviderOf(id) == ProfileById(id).provider

\* settings.max_novnc_concurrent_sessions
MaxNovncConcurrentSessions == 1

----------------------------------------------------------------------------
(* BrowserProviderAllocator.allocate_for_dummy_account *)

\* 1. the account's status=active profiles (the providers are all is_active)
ActiveProfiles(a, pstatus) ==
    LET Keep(pr) == pr.dummy_account_id = a /\ pstatus[pr.id] = "active"
    IN SelectSeq(Profiles, Keep)

\* 2. sorted by the fixed priority list, remote-profile providers before
\* container-based ones; ties keep the query order
PriorityOrder(cands) ==
    LET IsRemote(pr) == pr.provider = GOLOGIN
        IsContainer(pr) == pr.provider # GOLOGIN
    IN SelectSeq(cands, IsRemote) \o SelectSeq(cands, IsContainer)

\* the live count of running sessions the throttle compares with the ceiling
CountActiveNovncSessions(live) == live[NOVNC_AWS]

IsThrottled_Never(pr, live) == FALSE

\* 3. a container-based candidate at or above the ceiling is skipped
IsThrottled(pr, live) ==
    /\ pr.provider # GOLOGIN
    /\ CountActiveNovncSessions(live) >= MaxNovncConcurrentSessions

\* 4.-6. the outcome of one start_session call, folded into the result so far
AfterAttempt(r, pr, res) ==
    [r EXCEPT !.calls = Append(@, pr.id),
              !.session = IF res.ok THEN pr.id ELSE @,
              !.errors = IF res.ok THEN @ ELSE Append(@, res.code),
              !.left = IF res.left = "none" THEN @ ELSE Append(@, res.left)]

Returned_Never(r) == FALSE

\* 5. on success the Session is returned at once
Returned(r) == r.session # 0

RECURSIVE FallbackChain(_, _, _, _)
\* the candidates are tried one at a time, in order, until one starts
FallbackChain(cands, cause, live, r) ==
    IF cands = <<>> \/ Returned(r) THEN r
    ELSE LET pr == Head(cands) IN
         IF IsThrottled(pr, live)
         THEN FallbackChain(Tail(cands), cause, live,
                            [r EXCEPT !.throttled = Append(@, pr.id)])
         ELSE FallbackChain(Tail(cands), cause, live,
                            AfterAttempt(r, pr, StartSession(pr.provider, cause[pr.id])))

NoAttempt == [session |-> 0, calls |-> <<>>, errors |-> <<>>, throttled |-> <<>>,
              left |-> <<>>]

\* [session, calls, errors, throttled, left]: the profile whose session is
\* returned (0: none, AllProvidersExhausted is raised), the start_session calls
\* in the order made, the error codes recorded, the candidates skipped
AllocateForDummyAccount(a, pstatus, cause, live) ==
    FallbackChain(PriorityOrder(ActiveProfiles(a, pstatus)), cause, live, NoAttempt)

\* 7. AllProvidersExhausted carries the last error
LastError(r) == IF r.errors = <<>> THEN "none" ELSE r.errors[Len(r.errors)]

\* the sessions running once the call has returned
LiveAfter(live, r) ==
    IF r.session = 0 THEN live
    ELSE [live EXCEPT ![ProviderOf(r.session)] = @ + 1]

----------------------------------------------------------------------------
(* The job store *)

Posts == {1, 2, 3}

\* publishing_runs ids: the parent runs of the posts
Runs == {1, 2}

\* publishing_posts rows: post 2 was created with a scheduled_at, the others
\* without (status SCHEDULED if scheduled_at else PENDING)
PostRows == [p \in Posts |->
    CASE p = 1 -> [publishing_run_id |-> 1, dummy_account_id |-> 1, scheduled_at |-> NULL, status |-> "PENDING"]
      [] p = 2 -> [publishing_run_id |-> 1, dummy_account_id |-> 1, scheduled_at |-> 1, status |-> "SCHEDULED"]
      [] p = 3 -> [publishing_run_id |-> 2, dummy_account_id |-> 2, scheduled_at |-> NULL, status |-> "PENDING"]]

\* settings.gologin_accounts: the account names with a GoLogin token and profile
GoLoginProfiles == {"alice"}

\* Settings.get_gologin_credentials(account_name) is not None
HasGoLoginCredentials(name) == name \in GoLoginProfiles

AccountTables == {
    [a \in Accounts |-> IF a = 1 THEN [name |-> "alice", launch_group_id |-> 1]
                        ELSE [name |-> "bob", launch_group_id |-> 1]],
    [a \in Accounts |-> IF a = 1 THEN [name |-> "alice", launch_group_id |-> 1]
                        ELSE [name |-> "bob", launch_group_id |-> NULL]] }

IsDue_IgnoresSchedule(p, t) ==
    \/ status[p] = "PENDING"
    \/ status[p] = "SCHEDULED"

\* the where clause of get_pending_runs
IsDue(p, t) ==
    \/ status[p] = "PENDING"
    \/ status[p] = "SCHEDULED" /\ PostRows[p].scheduled_at # NULL
                               /\ PostRows[p].scheduled_at <= t

\* ORDER BY scheduled_at ASC, id ASC (a NULL scheduled_at sorts last)
Before(p, q) ==
    LET sp == PostRows[p].scheduled_at
        sq == PostRows[q].scheduled_at
    IN IF sp = sq THEN p < q
       ELSE IF sp = NULL THEN FALSE
       ELSE IF sq = NULL THEN TRUE
       ELSE sp < sq

RECURSIVE Ordered(_)
Ordered(S) ==
    IF S = {} THEN <<>>
    ELSE LET first == CHOOSE p \in S : \A q \in S \ {p} : Before(p, q)
         IN <<first>> \o Ordered(S \ {first})

FirstN(s, n) == IF Len(s) <= n THEN s ELSE SubSeq(s, 1, n)

\* PublishingRunService.get_pending_runs(session, limit)
GetPendingRuns(t, limit) == FirstN(Ordered({p \in Posts : IsDue(p, t)}), limit)

RECURSIVE NamesInOrder(_, _)
\* the keys of runs_by_account, in the order they were first inserted
NamesInOrder(runs, seen) ==
    IF runs = <<>> THEN <<>>
    ELSE LET n == accounts[PostRows[Head(runs)].dummy_account_id].name IN
         IF n \in seen THEN NamesInOrder(Tail(runs), seen)
         ELSE <<n>> \o NamesInOrder(Tail(runs), seen \cup {n})

RECURSIVE LastGroupOf(_, _, _)
\* account_launch_groups[name]: the launch group of the last run of that name
LastGroupOf(runs, name, sofar) ==
    IF runs = <<>> THEN sofar
    ELSE LET acc == accounts[PostRows[Head(runs)].dummy_account_id] IN
         LastGroupOf(Tail(runs), name,
                     IF acc.name = name THEN acc.launch_group_id ELSE sofar)

\* runs_by_account and account_launch_groups, as a sequence of batches
RunsByAccount(runs) ==
    LET names == NamesInOrder(runs, {})
        OfName(n) == LET Is(p) == accounts[PostRows[p].dummy_account_id].name = n
                     IN SelectSeq(runs, Is)
    IN [i \in DOMAIN names |->
           [account_name |-> names[i],
            run_ids |-> OfName(names[i]),
            launch_group_id |-> LastGroupOf(runs, names[i], NULL)]]

----------------------------------------------------------------------------
(* PublishingJob.process_pending_runs, one worker's call *)

NoStats == [processed |-> 0, successful |-> 0, failed |-> 0, skipped_quota |-> 0]

\* attempt, failed_at and error are execute_run's: the attempt loop's counter,
\* the step an exception was raised in and the words of its text
Idle == [pc |-> "idle", runs_by_account |-> <<>>, bi |-> 0, ji |-> 0,
         stats |-> NoStats, shared_driver |-> FALSE, browser_session |-> "none",
         result |-> "none", attempt |-> 0, failed_at |-> "none", error |-> {},
         store_down |-> FALSE, store_error |-> FALSE]

NoHistory == [on_start |-> [p \in Posts |-> 0], on_finish |-> [p \in Posts |-> 0],
              executed |-> {}, ran |-> {}, returned |-> {}, denied |-> {},
              opened |-> {}]

Batch(w) == wk[w].runs_by_account[wk[w].bi]
RunId(w) == Batch(w).run_ids[wk[w].ji]
\* `if launch_group_id:` is false for None and for 0
HasGroup(w) == Batch(w).launch_group_id # NULL /\ Batch(w).launch_group_id # 0
At(w, label) == wk[w].pc = label

\* the for loop over runs_by_account moves on, or the call returns stats
NextBatch(l) ==
    IF l.bi < Len(l.runs_by_account)
    THEN [l EXCEPT !.pc = "precheck", !.bi = @ + 1, !.ji = 0, !.shared_driver = FALSE,
                   !.browser_session = "none", !.result = "none",
                   !.attempt = 0, !.failed_at = "none", !.error = {}]
    ELSE [l EXCEPT !.pc = "done", !.ji = 0, !.shared_driver = FALSE,
                   !.browser_session = "none", !.result = "none",
                   !.attempt = 0, !.failed_at = "none", !.error = {}]

SkipBatch_NotSkipped(l, n) == [l EXCEPT !.pc = "open", !.stats.skipped_quota = @ + n]

\* the pre-check said no: the batch's n runs are counted as skipped_quota and
\* `continue` moves to the next batch
SkipBatch(l, n) == NextBatch([l EXCEPT !.stats.skipped_quota = @ + n])

\* stats after one process_single call returned res
Counted(st, res) ==
    IF res = "skipped_quota"
    THEN [st EXCEPT !.processed = @ + 1, !.skipped_quota = @ + 1]
    ELSE IF res \in {"success", "skipped"}
    THEN [st EXCEPT !.processed = @ + 1, !.successful = @ + 1]
    ELSE [st EXCEPT !.processed = @ + 1, !.failed = @ + 1]

\* the for loop over run_ids moves on; after the last run the shared driver
\* context exits and the next batch starts
NextRun(l, res) ==
    LET c == [l EXCEPT !.stats = Counted(@, res)] IN
    IF l.ji < Len(l.runs_by_account[l.bi].run_ids)
    THEN [c EXCEPT !.pc = "admit", !.ji = @ + 1, !.browser_session = "none",
                   !.result = "none", !.attempt = 0, !.failed_at = "none",
                   !.error = {}]
    ELSE NextBatch(c)

\* max_attempts = 3
MaxAttempts == 3

\* the words execute_run looks for in an error text, of those the text of
\* NameError: name 'gologin_token_param' is not defined holds
NameErrorText == {"gologin"}

\* is_provider_error, the retry decision's test of the Publisher's error text
IsProviderError(text) == "gologin" \in text \/ "limit" \in text

\* the except clause's test: log_provider_error (which names the undefined
\* gologin_profile_id) or log_run_failed
IsGoLoginError(text) == "gologin" \in text

AfterAttemptRaised_Retried(l, stage, text) ==
    [l EXCEPT !.pc = "allocate", !.failed_at = stage, !.error = text]

\* an exception raised inside the attempt loop is caught outside the loop:
\* execute_run returns "failed", or "system_error" when the handler itself
\* raised, and no other attempt is made
AfterAttemptRaised(l, stage, text) ==
    [l EXCEPT !.pc = "finish", !.failed_at = stage, !.error = text,
              !.result = IF IsGoLoginError(text) THEN "system_error" ELSE "failed"]

\* BrowserProviderAllocator.get_fallback_profile: the first active profile of
\* the account, in query order, whose provider is not the excluded one (0: none)
GetFallbackProfile(a, pstatus, exclude_provider_code) ==
    LET Keep(pr) == /\ pr.dummy_account_id = a
                    /\ pstatus[pr.id] = "active"
                    /\ pr.provider # exclude_provider_code
        found == SelectSeq(Profiles, Keep)
    IN IF found = <<>> THEN 0 ELSE Head(found).id

\* the limit argument of each worker's call
LimitOf(w) == IF w = "w1" THEN Limit ELSE SmallLimit

\* runs = get_pending_runs(limit); group by account name
Fetch(w) ==
    /\ At(w, "idle")
    /\ LET runs == GetPendingRuns(now, LimitOf(w))
           l == [wk[w] EXCEPT !.runs_by_account = RunsByAccount(runs)]
       IN wk' = [wk EXCEPT ![w] = IF runs = <<>> THEN [l EXCEPT !.pc = "done"]
                                   ELSE NextBatch(l)]
    /\ UNCHANGED <<ledgerVars, allocVars, storeVars, gh, groups0, ps, upd, sel>>

\* the pre-check: can_execute_run in a quota session that is closed without a
\* commit, so what it reset is rolled back
PreCheckDenied(w) ==
    /\ At(w, "precheck")
    /\ HasGroup(w)
    /\ rowLock[Batch(w).launch_group_id] = NoWorker
    /\ ~CanExecuteRun(groups[Batch(w).launch_group_id], now)
    /\ wk' = [wk EXCEPT ![w] = SkipBatch(@, Len(Batch(w).run_ids))]
    /\ gh' = [gh EXCEPT ![w].denied = @ \cup {Batch(w).account_name}]
    /\ UNCHANGED <<ledgerVars, allocVars, storeVars, groups0, ps, upd, sel>>

PreCheckPassed(w) ==
    /\ At(w, "precheck")
    /\ \/ ~HasGroup(w)
       \/ /\ HasGroup(w)
          /\ rowLock[Batch(w).launch_group_id] = NoWorker
          /\ CanExecuteRun(groups[Batch(w).launch_group_id], now)
    /\ wk' = [wk EXCEPT ![w].pc = "open"]
    /\ UNCHANGED <<ledgerVars, allocVars, storeVars, gh, groups0, ps, upd, sel>>

\* creds found, SyncGoLoginWebDriver constructed and entered: the batch runs
\* on the shared driver
OpenSharedEntered(w) ==
    /\ At(w, "open")
    /\ HasGoLoginCredentials(Batch(w).account_name)
    /\ wk' = [wk EXCEPT ![w].pc = "admit", ![w].ji = 1, ![w].shared_driver = TRUE]
    /\ gh' = [gh EXCEPT ![w].opened = @ \cup {Batch(w).account_name}]
    /\ UNCHANGED <<ledgerVars, allocVars, storeVars, groups0, ps, upd, sel>>

\* no creds, or the constructor or __enter__ raised: did_run_shared stays False
\* and the runs go one by one, but only if nothing was processed before
OpenSharedUnavailable(w) ==
    /\ At(w, "open")
    /\ wk' = [wk EXCEPT ![w] =
                IF @.stats.processed = 0
                THEN [@ EXCEPT !.pc = "admit", !.ji = 1]
                ELSE NextBatch(@)]
    /\ UNCHANGED <<ledgerVars, allocVars, storeVars, gh, groups0, ps, upd, sel>>

\* process_single, no launch group: straight to execute_run
AdmitNoGroup(w) ==
    /\ At(w, "admit")
    /\ ~HasGroup(w)
    /\ wk' = [wk EXCEPT ![w].pc = "exec"]
    /\ UNCHANGED <<ledgerVars, allocVars, storeVars, gh, groups0, ps, upd, sel>>

\* process_single: can_execute_run takes the row lock in q_sess
AdmitLock(w) ==
    /\ At(w, "admit")
    /\ HasGroup(w)
    /\ SelectForUpdate(w, Batch(w).launch_group_id)
    /\ wk' = [wk EXCEPT ![w].pc = "admit_decide"]
    /\ UNCHANGED <<groups, now, calls, allocVars, storeVars, gh, groups0, ps, upd, sel>>

\* can_execute_run said no: "skipped_quota" is returned before the try, the
\* session closes without a commit
AdmitDenied(w) ==
    /\ At(w, "admit_decide")
    /\ ~ValidateLimits(CanExecuteRunRow(txn[w], now))
    /\ Rollback(w, Batch(w).launch_group_id)
    /\ wk' = [wk EXCEPT ![w] = NextRun(@, "skipped_quota")]
    /\ gh' = [gh EXCEPT ![w].returned = @ \cup {RunId(w)}]
    /\ UNCHANGED <<now, calls, allocVars, storeVars, groups0, ps, upd, sel>>

\* can_execute_run said yes: on_run_started and the commit, same session
AdmitStarted(w) ==
    /\ At(w, "admit_decide")
    /\ ValidateLimits(CanExecuteRunRow(txn[w], now))
    /\ Commit(w, Batch(w).launch_group_id, OnRunStarted(CanExecuteRunRow(txn[w], now)))
    /\ NoteStart(Batch(w).launch_group_id)
    /\ wk' = [wk EXCEPT ![w].pc = "exec"]
    /\ gh' = [gh EXCEPT ![w].on_start[RunId(w)] = @ + 1]
    /\ UNCHANGED <<now, allocVars, storeVars, groups0, ps, upd, sel>>

\* execute_run, no asset linked (or the link is broken): FAILED, "failed"
ExecNoAssets(w) ==
    /\ At(w, "exec")
    /\ ~assets[RunId(w)]
    /\ status' = [status EXCEPT ![RunId(w)] = "FAILED"]
    /\ retry_count' = [retry_count EXCEPT ![PostRows[RunId(w)].publishing_run_id] = @ + 1]
    /\ wk' = [wk EXCEPT ![w].pc = "finish", ![w].result = "failed"]
    /\ gh' = [gh EXCEPT ![w].executed = @ \cup {RunId(w)}]
    /\ UNCHANGED <<ledgerVars, allocVars, accounts, assets, events, jobDir, groups0, ps, upd, sel>>

\* execute_run step 2: update_run_status(RUNNING), whatever the status was
ExecRunning(w) ==
    /\ At(w, "exec")
    /\ assets[RunId(w)]
    /\ status' = [status EXCEPT ![RunId(w)] = "RUNNING"]
    /\ wk' = [wk EXCEPT ![w].pc = "materialize"]
    /\ gh' = [gh EXCEPT ![w].executed = @ \cup {RunId(w)},
                         ![w].ran = @ \cup {RunId(w)}]
    /\ UNCHANGED <<ledgerVars, allocVars, accounts, assets, retry_count, events, jobDir, groups0, ps, upd, sel>>

MaterializeAsset_AlwaysFetches(job_id, populated, fetch_ok) ==
    [returned |-> fetch_ok, fetched |-> TRUE, populated |-> fetch_ok,
     path |-> IF fetch_ok THEN job_id ELSE 0]

\* AssetMaterializer.materialize_asset for the asset of job job_id: populated
\* says whether the job directory holds the non-empty file, fetch_ok whether
\* the S3 download or blob write goes through if it is made. The result says
\* whether the call returned (or raised), whether it made the fetch, whether
\* the file is there afterwards, and the path returned (the job's, 0 if none)
MaterializeAsset(job_id, populated, fetch_ok) ==
    IF populated
    THEN [returned |-> TRUE, fetched |-> FALSE, populated |-> TRUE, path |-> job_id]
    ELSE [returned |-> fetch_ok, fetched |-> TRUE, populated |-> fetch_ok,
          path |-> IF fetch_ok THEN job_id ELSE 0]

\* step 3, the fetch inside materialized_scope fails: FAILED, "failed"
\* (no fetch is made when another call's copy is still in the job directory)
MaterializeFailed(w) ==
    /\ At(w, "materialize")
    /\ \E ok \in BOOLEAN : ~MaterializeAsset(RunId(w), jobDir[RunId(w)], ok).returned
    /\ status' = [status EXCEPT ![RunId(w)] = "FAILED"]
    /\ retry_count' = [retry_count EXCEPT ![PostRows[RunId(w)].publishing_run_id] = @ + 1]
    /\ wk' = [wk EXCEPT ![w].pc = "finish", ![w].result = "failed"]
    /\ UNCHANGED <<ledgerVars, allocVars, accounts, assets, events, jobDir, gh, groups0, ps, upd, sel>>

\* the scope's exit removed the directory and the fetch of the second
\* materializer fails: `raise e` reaches the outermost except, which returns
\* "system_error" and writes no status; the finally removes the directory
MaterializeRaised(w) ==
    /\ At(w, "materialize")
    /\ jobDir' = [jobDir EXCEPT ![RunId(w)] = FALSE]
    /\ wk' = [wk EXCEPT ![w].pc = "finish", ![w].result = "system_error"]
    /\ UNCHANGED <<ledgerVars, allocVars, accounts, assets, retry_count, status, events, gh, groups0, ps, upd, sel>>

\* both fetches went through: the asset is in the job directory
Materialized(w) ==
    /\ At(w, "materialize")
    /\ jobDir' = [jobDir EXCEPT
                    ![RunId(w)] = MaterializeAsset(RunId(w), FALSE, TRUE).populated]
    /\ wk' = [wk EXCEPT ![w].pc = "allocate"]
    /\ UNCHANGED <<ledgerVars, allocVars, accounts, assets, retry_count, status, events, gh, groups0, ps, upd, sel>>

\* step 4 materializes once more: the file is found, unless another call's
\* cleanup removed the directory meanwhile and the new fetch fails: FAILED
RematerializeFailed(w) ==
    /\ At(w, "allocate")
    /\ \E ok \in BOOLEAN : ~MaterializeAsset(RunId(w), jobDir[RunId(w)], ok).returned
    /\ status' = [status EXCEPT ![RunId(w)] = "FAILED"]
    /\ retry_count' = [retry_count EXCEPT ![PostRows[RunId(w)].publishing_run_id] = @ + 1]
    /\ wk' = [wk EXCEPT ![w].pc = "finish", ![w].result = "failed"]
    /\ UNCHANGED <<ledgerVars, allocVars, accounts, assets, events, jobDir, gh, groups0, ps, upd, sel>>

\* what allocate_for_dummy_account can come back with, for every way the
\* providers' start_session calls can go
AllocationOutcomes(a, pstatus, live) ==
    LET cands == PriorityOrder(ActiveProfiles(a, pstatus))
        Causes(id) == IF \E i \in DOMAIN cands : cands[i].id = id
                      THEN StartCauses(ProviderOf(id))
                      ELSE {[kind |-> "ok", words |-> {}]}
    IN { AllocateForDummyAccount(a, pstatus, <<c1, c2, c3, c4>>, live) :
           c1 \in Causes(1), c2 \in Causes(2), c3 \in Causes(3), c4 \in Causes(4) }

\* the allocator raised: the inner except writes FAILED and logs RUN_FAILED,
\* or, when the message mentions gologin, hits the undefined gologin_profile_id
\* and the outermost except returns "system_error"
AllocateExhausted(w) ==
    /\ At(w, "allocate")
    /\ \E r \in AllocationOutcomes(PostRows[RunId(w)].dummy_account_id,
                                   profileStatus, liveSessions) : r.session = 0
    /\ status' = [status EXCEPT ![RunId(w)] = "FAILED"]
    /\ retry_count' = [retry_count EXCEPT ![PostRows[RunId(w)].publishing_run_id] = @ + 1]
    /\ jobDir' = [jobDir EXCEPT ![RunId(w)] = FALSE]
    /\ \E logged \in BOOLEAN :
          /\ events' = IF logged
                       THEN events \cup {[post |-> RunId(w), type |-> "RUN_FAILED",
                                          by |-> w]}
                       ELSE events
          /\ wk' = [wk EXCEPT ![w] =
                      AfterAttemptRaised([@ EXCEPT !.attempt = @ + 1], "allocate",
                                         IF logged THEN {} ELSE {"gologin"})]
    /\ UNCHANGED <<ledgerVars, allocVars, accounts, assets, gh, groups0, ps, upd, sel>>

\* the allocator returned a Session: RUN_PROVIDER_SELECTED is logged
AllocateSelected(w) ==
    /\ At(w, "allocate")
    /\ \E r \in AllocationOutcomes(PostRows[RunId(w)].dummy_account_id,
                                   profileStatus, liveSessions) :
          /\ r.session # 0
          /\ liveSessions' = LiveAfter(liveSessions, r)
          /\ wk' = [wk EXCEPT ![w].pc = "workflow",
                              ![w].attempt = @ + 1,
                              ![w].browser_session = ProviderOf(r.session)]
    /\ events' = events \cup {[post |-> RunId(w), type |-> "RUN_PROVIDER_SELECTED",
                               by |-> w]}
    /\ jobDir' = [jobDir EXCEPT ![RunId(w)] = TRUE]
    /\ gh' = [gh EXCEPT ![w].opened = @ \cup {Batch(w).account_name}]
    /\ UNCHANGED <<ledgerVars, profileStatus, lastAlloc, accounts, assets, retry_count, status,
                   groups0, ps, upd, sel>>

\* webdriver.Remote raises (not tried for a GOLOGIN session when the shared
\* driver was passed in): FAILED, RUN_FAILED, "failed"
ConnectFailed(w) ==
    /\ At(w, "workflow")
    /\ ~(wk[w].browser_session = GOLOGIN /\ wk[w].shared_driver)
    /\ status' = [status EXCEPT ![RunId(w)] = "FAILED"]
    /\ retry_count' = [retry_count EXCEPT ![PostRows[RunId(w)].publishing_run_id] = @ + 1]
    /\ jobDir' = [jobDir EXCEPT ![RunId(w)] = FALSE]
    /\ events' = events \cup {[post |-> RunId(w), type |-> "RUN_FAILED", by |-> w]}
    /\ wk' = [wk EXCEPT ![w] = AfterAttemptRaised(@, "connect", {})]
    /\ UNCHANGED <<ledgerVars, allocVars, accounts, assets, gh, groups0, ps, upd, sel>>

WorkflowNameError_NoCleanup(w) ==
    /\ At(w, "workflow")
    /\ status' = [status EXCEPT ![RunId(w)] = "FAILED"]
    /\ retry_count' = [retry_count EXCEPT ![PostRows[RunId(w)].publishing_run_id] = @ + 1]
    /\ wk' = [wk EXCEPT ![w] = AfterAttemptRaised(@, "publisher", NameErrorText)]
    /\ UNCHANGED <<ledgerVars, allocVars, accounts, assets, events, jobDir, gh, groups0, ps, upd, sel>>

\* the arguments of run_cycle_single name gologin_token_param, which is not
\* defined: NameError before the call, FAILED is written, the error text
\* mentions gologin, log_provider_error names the undefined gologin_profile_id
\* and the outermost except returns "system_error"
WorkflowNameError(w) ==
    /\ At(w, "workflow")
    /\ status' = [status EXCEPT ![RunId(w)] = "FAILED"]
    /\ retry_count' = [retry_count EXCEPT ![PostRows[RunId(w)].publishing_run_id] = @ + 1]
    /\ jobDir' = [jobDir EXCEPT ![RunId(w)] = FALSE]
    /\ wk' = [wk EXCEPT ![w] = AfterAttemptRaised(@, "publisher", NameErrorText)]
    /\ UNCHANGED <<ledgerVars, allocVars, accounts, assets, events, gh, groups0, ps, upd, sel>>

\* process_single's finally, no launch group
FinishNoGroup(w) ==
    /\ At(w, "finish")
    /\ ~HasGroup(w)
    /\ wk' = [wk EXCEPT ![w] = NextRun(@, @.result)]
    /\ gh' = [gh EXCEPT ![w].returned = @ \cup {RunId(w)}]
    /\ UNCHANGED <<ledgerVars, allocVars, storeVars, groups0, ps, upd, sel>>

\* process_single's finally: on_run_finished takes the row lock
FinishLock(w) ==
    /\ At(w, "finish")
    /\ HasGroup(w)
    /\ SelectForUpdate(w, Batch(w).launch_group_id)
    /\ wk' = [wk EXCEPT ![w].pc = "finish_commit"]
    /\ UNCHANGED <<groups, now, calls, allocVars, storeVars, gh, groups0, ps, upd, sel>>

\* on_run_finished decrements and the session commits
FinishCommit(w) ==
    /\ At(w, "finish_commit")
    /\ Commit(w, Batch(w).launch_group_id, OnRunFinished(txn[w]))
    /\ NoteFinish(Batch(w).launch_group_id)
    /\ gh' = [gh EXCEPT ![w].on_finish[RunId(w)] = @ + 1,
                         ![w].returned = @ \cup {RunId(w)}]
    /\ wk' = [wk EXCEPT ![w] = NextRun(@, @.result)]
    /\ UNCHANGED <<now, allocVars, storeVars, groups0, ps, upd, sel>>

\* time passes
Tick ==
    /\ now < MaxNow
    /\ now' = now + 1
    /\ UNCHANGED <<groups, rowLock, txn, calls, allocVars, storeVars, jobVars>>

----------------------------------------------------------------------------
(* Spec: the workers' process_pending_runs calls, interleaved *)

\* the launch_groups row of group 1 before the calls: a concurrency cap of 1,
\* a daily cap of 1, a stale day window with a run still counted as running,
\* a concurrency cap of 0, and today's count already at the daily cap
StartRows ==
    { Row(1, NULL, MaxCount, 0, 0, 0, NULL, NULL),
      Row(NULL, 1, MaxCount, 0, 0, 0, NULL, NULL),
      Row(3, 2, MaxCount, 1, 2, 0, 0, 0),
      Row(0, NULL, MaxCount, 0, 0, 0, NULL, NULL),
      Row(NULL, 2, MaxCount, 0, 2, 2, MaxNow - 1, MaxNow - 1) }

StoreInit ==
    /\ accounts \in AccountTables
    /\ assets \in {[p \in Posts |-> TRUE], [p \in Posts |-> p # 3]}
    /\ status = [p \in Posts |-> PostRows[p].status]
    /\ events = {}
    /\ jobDir = [p \in Posts |-> FALSE]
    /\ retry_count = [r \in Runs |-> 0]

\* no update_run_status call under way
NoUpdate == [pc |-> "idle", post |-> 0, status |-> "none", seen |-> 0]

\* no allocate call made
NoSelect == [pc |-> "idle", rows |-> <<>>, is_active |-> <<>>, account |-> 0,
             selected |-> 0]

JobsInit ==
    /\ wk = [w \in Workers |-> Idle]
    /\ gh = [w \in Workers |-> NoHistory]
    /\ groups0 = groups
    /\ ps = NoCall
    /\ upd = [w \in Workers |-> NoUpdate]
    /\ sel = NoSelect

Init ==
    /\ groups \in {[g \in Groups |-> IF g = 1 THEN r
                                     ELSE Row(NULL, NULL, MaxCount, 0, 0, 0, NULL, NULL)] :
                      r \in StartRows}
    /\ rowLock = [g \in Groups |-> NoWorker]
    /\ txn = [w \in Workers |-> NoRow]
    /\ now = MaxNow - 1
    /\ calls = [g \in Groups |-> [on_start |-> 0, on_finish |-> 0, unadmitted |-> 0,
                                 unmatched |-> 0]]
    /\ profileStatus = [id \in ProfileIds |-> "active"]
    /\ liveSessions = [c \in ProviderCodes |-> 0]
    /\ lastAlloc = [account |-> 0]
    /\ StoreInit
    /\ JobsInit

Next ==
    \/ \E w \in Workers : Fetch(w)
    \/ \E w \in Workers : PreCheckDenied(w)
    \/ \E w \in Workers : PreCheckPassed(w)
    \/ \E w \in Workers : OpenSharedEntered(w)
    \/ \E w \in Workers : OpenSharedUnavailable(w)
    \/ \E w \in Workers : AdmitNoGroup(w)
    \/ \E w \in Workers : AdmitLock(w)
    \/ \E w \in Workers : AdmitDenied(w)
    \/ \E w \in Workers : AdmitStarted(w)
    \/ \E w \in Workers : ExecNoAssets(w)
    \/ \E w \in Workers : ExecRunning(w)
    \/ \E w \in Workers : MaterializeFailed(w)
    \/ \E w \in Workers : MaterializeRaised(w)
    \/ \E w \in Workers : Materialized(w)
    \/ \E w \in Workers : RematerializeFailed(w)
    \/ \E w \in Workers : AllocateExhausted(w)
    \/ \E w \in Workers : AllocateSelected(w)
    \/ \E w \in Workers : ConnectFailed(w)
    \/ \E w \in Workers : WorkflowNameError(w)
    \/ \E w \in Workers : FinishNoGroup(w)
    \/ \E w \in Workers : FinishLock(w)
    \/ \E w \in Workers : FinishCommit(w)

Spec == Init /\ [][Next]_vars

----------------------------------------------------------------------------
(* SpecAlloc: the allocator called for any account, sessions released,      *)
(* profiles marked exhausted                                                *)

NoAlloc == [account |-> 0]
OkCause == [kind |-> "ok", words |-> {}]

CausesFor(id, cands) ==
    IF \E i \in DOMAIN cands : cands[i].id = id
    THEN StartCauses(ProviderOf(id))
    ELSE {OkCause}

TotalLive == liveSessions[GOLOGIN] + liveSessions[NOVNC_AWS]

AllocInit ==
    /\ profileStatus = [id \in ProfileIds |-> "active"]
    /\ liveSessions = [c \in ProviderCodes |-> 0]
    /\ lastAlloc = NoAlloc

\* allocator.allocate_for_dummy_account(session, dummy_account_id=a)
Allocate(a) ==
    /\ TotalLive < MaxLive
    /\ LET cands == PriorityOrder(ActiveProfiles(a, profileStatus)) IN
       \E c1 \in CausesFor(1, cands), c2 \in CausesFor(2, cands),
          c3 \in CausesFor(3, cands), c4 \in CausesFor(4, cands) :
          LET cause == <<c1, c2, c3, c4>>
              r == AllocateForDummyAccount(a, profileStatus, cause, liveSessions)
          IN \* a candidate that is never started has no cause to speak of
             /\ \A id \in ProfileIds :
                    (\A i \in DOMAIN r.calls : r.calls[i] # id) => cause[id] = OkCause
             /\ liveSessions' = LiveAfter(liveSessions, r)
             /\ lastAlloc' = [account |-> a,
                              cands |-> [i \in DOMAIN cands |-> cands[i].id],
                              cause |-> cause,
                              live_before |-> liveSessions,
                              live_after |-> LiveAfter(liveSessions, r),
                              r |-> r]
    /\ UNCHANGED profileStatus

\* the session's consumer is done with it: provider.stop_session for a
\* container session, the driver context's __exit__ for a GoLogin session
ReleaseSession(code) ==
    /\ liveSessions[code] > 0
    /\ liveSessions' = [liveSessions EXCEPT ![code] = @ - 1]
    /\ UNCHANGED <<profileStatus, lastAlloc>>

\* BrowserProviderAllocator.mark_provider_exhausted(profile_id)
MarkProviderExhausted(id) ==
    /\ profileStatus[id] = "active"
    /\ profileStatus' = [profileStatus EXCEPT ![id] = "exhausted"]
    /\ UNCHANGED <<liveSessions, lastAlloc>>

LedgerIdle ==
    /\ groups = [g \in Groups |-> Row(2, 2, MaxCount, 0, 0, 0, NULL, NULL)]
    /\ rowLock = [g \in Groups |-> NoWorker]
    /\ txn = [w \in Workers |-> NoRow]
    /\ now = 0
    /\ calls = [g \in Groups |-> [on_start |-> 0, on_finish |-> 0, unadmitted |-> 0,
                                 unmatched |-> 0]]

JobsIdle ==
    /\ accounts = [a \in Accounts |-> [name |-> IF a = 1 THEN "alice" ELSE "bob",
                                       launch_group_id |-> 1]]
    /\ assets = [p \in Posts |-> TRUE]
    /\ status = [p \in Posts |-> PostRows[p].status]
    /\ events = {}
    /\ jobDir = [p \in Posts |-> FALSE]
    /\ retry_count = [r \in Runs |-> 0]
    /\ JobsInit

InitAlloc == LedgerIdle /\ AllocInit /\ JobsIdle

NextAlloc ==
    \/ \E a \in Accounts : Allocate(a) /\ UNCHANGED <<ledgerVars, storeVars, jobVars>>
    \/ \E c \in ProviderCodes : ReleaseSession(c) /\ UNCHANGED <<ledgerVars, storeVars, jobVars>>
    \/ \E id \in ProfileIds : MarkProviderExhausted(id) /\ UNCHANGED <<ledgerVars, storeVars, jobVars>>

SpecAlloc == InitAlloc /\ [][NextAlloc]_vars

----------------------------------------------------------------------------
(* SpecQuota: LaunchGroupService called by concurrent callers in any order, *)
(* while time passes                                                        *)

\* a caller opens a quota session and the service's select takes the row lock
QuotaBegin(w, g, op) ==
    /\ At(w, "idle")
    /\ op \in {"q_admit", "q_start"} => calls[g].on_start < MaxCount
    /\ op = "q_finish" => calls[g].on_finish < MaxCount
    /\ SelectForUpdate(w, g)
    /\ wk' = [wk EXCEPT ![w].pc = op]
    /\ UNCHANGED <<groups, now, calls, allocVars, storeVars, gh, groups0, ps, upd, sel>>

LockedBy(w) == CHOOSE g \in Groups : rowLock[g] = w

\* can_execute_run alone, the session closed without a commit (the pre-check)
QuotaCheckClosed(w) ==
    /\ At(w, "q_check")
    /\ Rollback(w, LockedBy(w))
    /\ wk' = [wk EXCEPT ![w].pc = "idle"]
    /\ UNCHANGED <<now, calls, allocVars, storeVars, gh, groups0, ps, upd, sel>>

\* can_execute_run said no and the session is closed
QuotaAdmitDenied(w) ==
    /\ At(w, "q_admit")
    /\ ~ValidateLimits(CanExecuteRunRow(txn[w], now))
    /\ Rollback(w, LockedBy(w))
    /\ wk' = [wk EXCEPT ![w].pc = "idle"]
    /\ UNCHANGED <<now, calls, allocVars, storeVars, gh, groups0, ps, upd, sel>>

\* can_execute_run said yes, on_run_started, commit
QuotaAdmitStarted(w) ==
    /\ At(w, "q_admit")
    /\ ValidateLimits(CanExecuteRunRow(txn[w], now))
    /\ Commit(w, LockedBy(w), OnRunStarted(CanExecuteRunRow(txn[w], now)))
    /\ NoteStart(LockedBy(w))
    /\ wk' = [wk EXCEPT ![w].pc = "idle"]
    /\ UNCHANGED <<now, allocVars, storeVars, gh, groups0, ps, upd, sel>>

\* on_run_started, commit, with no can_execute_run before it
QuotaStarted(w) ==
    /\ At(w, "q_start")
    /\ Commit(w, LockedBy(w), OnRunStarted(txn[w]))
    /\ NoteUnadmitted(LockedBy(w))
    /\ wk' = [wk EXCEPT ![w].pc = "idle"]
    /\ UNCHANGED <<now, allocVars, storeVars, gh, groups0, ps, upd, sel>>

\* on_run_finished, commit: whether or not a start went before it
QuotaFinished(w) ==
    /\ At(w, "q_finish")
    /\ Commit(w, LockedBy(w), OnRunFinished(txn[w]))
    /\ NoteFinish(LockedBy(w))
    /\ wk' = [wk EXCEPT ![w].pc = "idle"]
    /\ UNCHANGED <<now, allocVars, storeVars, gh, groups0, ps, upd, sel>>

\* the callers all run accounts of the same launch group
QuotaGroups == {1}

QuotaOps == {"q_check", "q_admit", "q_start", "q_finish"}

InitQuota ==
    /\ groups \in {[g \in Groups |-> IF g = 1 THEN r
                                     ELSE Row(1, NULL, MaxCount, 0, 0, 0, NULL, NULL)] :
                      r \in FreshRows}
    /\ rowLock = [g \in Groups |-> NoWorker]
    /\ txn = [w \in Workers |-> NoRow]
    /\ now = 0
    /\ calls = [g \in Groups |-> [on_start |-> 0, on_finish |-> 0, unadmitted |-> 0,
                                 unmatched |-> 0]]
    /\ AllocInit
    /\ JobsIdle

NextQuota ==
    \/ \E w \in Workers, g \in QuotaGroups, op \in QuotaOps :
          QuotaBegin(w, g, op)
    \/ \E w \in Workers : QuotaCheckClosed(w)
    \/ \E w \in Workers : QuotaAdmitDenied(w)
    \/ \E w \in Workers : QuotaAdmitStarted(w)
    \/ \E w \in Workers : QuotaStarted(w)
    \/ \E w \in Workers : QuotaFinished(w)
    \/ Tick

SpecQuota == InitQuota /\ [][NextQuota]_vars

----------------------------------------------------------------------------
(* SpecStart: start_session of a container provider, one poll at a time.    *)
(* The compute API, the container and the network answer as they like.      *)

NOVNC == "NOVNC"
REMOTE_HEADLESS == "REMOTE_HEADLESS"
ContainerProviders == {NOVNC, REMOTE_HEADLESS, NOVNC_AWS}

\* `retries = ...` before the port loop of each provider, and range(60) of the
\* ChromeDriver readiness loop
NovncRetries == 20
RemoteHeadlessRetries == 30
NovncAwsRetries == 30
NovncAwsHealthChecks == 60

PortRetries(p) ==
    CASE p = NOVNC -> NovncRetries
      [] p = REMOTE_HEADLESS -> RemoteHeadlessRetries
      [] p = NOVNC_AWS -> NovncAwsRetries

\* only NovncAwsProvider polls the /status endpoint before it returns
HealthChecks(p) == IF p = NOVNC_AWS THEN NovncAwsHealthChecks ELSE 0

\* container.status values the port loop goes on with
AliveStatuses(p) == IF p = NOVNC THEN {"running"} ELSE {"running", "created"}

\* the other variables, which a start_session call leaves alone
notStartVars == <<ledgerVars, allocVars, storeVars, wk, gh, groups0, upd, sel>>

\* raise BrowserProviderError(code=<provider>_<kind>): inside the try block
\* the trailing `except Exception` catches it and raises <provider>_UNKNOWN
Raise(l, kind, inside_try) ==
    [l EXCEPT !.pc = "done", !.raised = kind,
              !.code = IF inside_try THEN "UNKNOWN" ELSE kind]

\* docker.errors.APIError inside the try block: <provider>_DOCKER_ERROR
RaiseApiError(l) ==
    [l EXCEPT !.pc = "done", !.raised = "API_ERROR", !.code = "DOCKER_ERROR"]

\* `if not self.client: raise ... DOCKER_ERROR`, before the try block
StartNoClient(p) ==
    /\ ps.pc = "idle"
    /\ ps' = Raise([ps EXCEPT !.provider = p], "DOCKER_ERROR", FALSE)
    /\ UNCHANGED notStartVars

\* client.containers.run raises APIError: no container was created
StartRunApiError(p) ==
    /\ ps.pc = "idle"
    /\ ps' = RaiseApiError([ps EXCEPT !.provider = p])
    /\ UNCHANGED notStartVars

\* client.containers.run returned the container; `retries = ...`
StartRun(p) ==
    /\ ps.pc = "idle"
    /\ ps' = [ps EXCEPT !.provider = p, !.pc = "port_poll",
                        !.container = "up", !.retries = PortRetries(p)]
    /\ UNCHANGED notStartVars

\* container.reload() raises APIError in the loop: the container is left
PortPollApiError ==
    /\ ps.pc = "port_poll"
    /\ ps' = RaiseApiError(ps)
    /\ UNCHANGED notStartVars

\* the container's status is not one the loop goes on with: ..._CRASH is
\* raised, the container is neither stopped nor removed
PortPollExited ==
    /\ ps.pc = "port_poll"
    /\ \E st \in {"running", "created", "exited"} \ AliveStatuses(ps.provider) :
          ps' = Raise([ps EXCEPT !.polls = @ + 1,
                                 !.container = IF st = "exited" THEN "exited" ELSE @],
                      "CRASH", TRUE)
    /\ UNCHANGED notStartVars

\* the host port is mapped and _is_port_open connects: break
PortPollReachable ==
    /\ ps.pc = "port_poll"
    /\ ps' = [ps EXCEPT !.polls = @ + 1, !.host_port = TRUE, !.port_open = TRUE,
                        !.pc = "after_port"]
    /\ UNCHANGED notStartVars

PortPollAgain_NoDecrement ==
    /\ ps.pc = "port_poll"
    /\ \E mapped \in BOOLEAN :
          ps' = [ps EXCEPT !.polls = (@ + 1) % (NovncAwsRetries + 2),
                           !.host_port = @ \/ mapped]
    /\ UNCHANGED notStartVars

\* no mapping yet, or the mapped port does not accept the connection:
\* time.sleep(1); retries -= 1; the loop ends when retries reaches 0
PortPollAgain ==
    /\ ps.pc = "port_poll"
    /\ \E mapped \in BOOLEAN :
          ps' = [ps EXCEPT !.polls = @ + 1,
                           !.host_port = @ \/ mapped,
                           !.retries = @ - 1,
                           !.pc = IF ps.retries - 1 > 0 THEN "port_poll"
                                  ELSE "after_port"]
    /\ UNCHANGED notStartVars

PortTimeout_NoTeardown ==
    /\ ps.pc = "after_port"
    /\ ~ps.host_port
    /\ ps' = Raise(ps, "TIMEOUT", TRUE)
    /\ UNCHANGED notStartVars

\* `if not host_port:` container.stop(); container.remove(); raise ..._TIMEOUT
PortTimeout ==
    /\ ps.pc = "after_port"
    /\ ~ps.host_port
    /\ ps' = Raise([ps EXCEPT !.container = "removed"], "TIMEOUT", TRUE)
    /\ UNCHANGED notStartVars

\* NovncAwsProvider goes on to the readiness loop with the port it was given
HealthBegin ==
    /\ ps.pc = "after_port"
    /\ ps.host_port
    /\ HealthChecks(ps.provider) > 0
    /\ ps' = [ps EXCEPT !.pc = "health", !.i = 0]
    /\ UNCHANGED notStartVars

\* GET <webdriver_url>/status answers 200: ready = True; break
HealthReady ==
    /\ ps.pc = "health"
    /\ ps' = [ps EXCEPT !.checks = @ + 1, !.ready = TRUE, !.pc = "after_health"]
    /\ UNCHANGED notStartVars

\* another status, or OSError / URLError: the next i, until range(60) ends
HealthNotReady ==
    /\ ps.pc = "health"
    /\ ps' = [ps EXCEPT !.checks = @ + 1,
                        !.i = @ + 1,
                        !.pc = IF ps.i + 1 < HealthChecks(ps.provider)
                               THEN "health" ELSE "after_health"]
    /\ UNCHANGED notStartVars

\* `if not ready:` container.stop(); container.remove(); raise ..._TIMEOUT
HealthTimeout ==
    /\ ps.pc = "after_health"
    /\ ~ps.ready
    /\ ps' = Raise([ps EXCEPT !.container = "removed"], "TIMEOUT", TRUE)
    /\ UNCHANGED notStartVars

\* container.stop() raises APIError in either teardown: the container is left
TeardownApiError ==
    /\ \/ ps.pc = "after_port" /\ ~ps.host_port
       \/ ps.pc = "after_health" /\ ~ps.ready
    /\ ps' = RaiseApiError(ps)
    /\ UNCHANGED notStartVars

\* return BrowserSession(...): NoVNCProvider and RemoteHeadlessProvider right
\* after the port loop, NovncAwsProvider once ready
ReturnSession ==
    /\ \/ ps.pc = "after_port" /\ ps.host_port /\ HealthChecks(ps.provider) = 0
       \/ ps.pc = "after_health" /\ ps.ready
    /\ ps' = [ps EXCEPT !.pc = "done", !.session = TRUE]
    /\ UNCHANGED notStartVars

\* the stop_session calls made for one session
MaxStops == 2

\* stop_session: containers.get(cid), stop(timeout=5), remove()
StopSession ==
    /\ ps.pc = "done" /\ ps.session
    /\ ps.stops < MaxStops
    /\ ps.container # "removed"
    /\ ps' = [ps EXCEPT !.container = "removed", !.stops = @ + 1]
    /\ UNCHANGED notStartVars

StopSessionNotFound_Raises ==
    /\ ps.pc = "done" /\ ps.session
    /\ ps.stops < MaxStops
    /\ ps.container = "removed"
    /\ ps' = [ps EXCEPT !.stops = @ + 1, !.stop_raised = TRUE]
    /\ UNCHANGED notStartVars

\* stop_session, the container is gone: containers.get raises NotFound, which
\* is passed over (NOVNC logs a warning)
StopSessionNotFound ==
    /\ ps.pc = "done" /\ ps.session
    /\ ps.stops < MaxStops
    /\ ps.container = "removed"
    /\ ps' = [ps EXCEPT !.stops = @ + 1]
    /\ UNCHANGED notStartVars

\* stop_session, get or stop raises (the container stays as it was) or remove
\* raises after stop (it stays, stopped): `except Exception` logs the error
StopSessionApiError ==
    /\ ps.pc = "done" /\ ps.session
    /\ ps.stops < MaxStops
    /\ ps.container # "removed"
    /\ \E c \in {ps.container, "exited"} :
          ps' = [ps EXCEPT !.container = c, !.stops = @ + 1]
    /\ UNCHANGED notStartVars

InitStart == LedgerIdle /\ AllocInit /\ JobsIdle

NextStart ==
    \/ \E p \in ContainerProviders : StartNoClient(p)
    \/ \E p \in ContainerProviders : StartRunApiError(p)
    \/ \E p \in ContainerProviders : StartRun(p)
    \/ PortPollApiError
    \/ PortPollExited
    \/ PortPollReachable
    \/ PortPollAgain
    \/ PortTimeout
    \/ HealthBegin
    \/ HealthReady
    \/ HealthNotReady
    \/ HealthTimeout
    \/ TeardownApiError
    \/ ReturnSession
    \/ StopSession
    \/ StopSessionNotFound
    \/ StopSessionApiError

SpecStart == InitStart /\ [][NextStart]_vars

----------------------------------------------------------------------------
(* The claims *)

(* C1: for every launch group, current_concurrent_runs >= 0 in every state   *)
(* reachable by on_run_started and on_run_finished calls in any order and    *)
(* any interleaving of the callers, on_run_finished calls that no            *)
(* on_run_started went before included.                                      *)
C1_ConcurrentNeverNegative ==
    /\ \A g \in Groups : groups[g].current_concurrent_runs >= 0
    /\ \A w \in Workers : txn[w] # NoRow => txn[w].current_concurrent_runs >= 0

\* more on_run_finished calls than on_run_started calls have been committed
\* for a group, which has had both, and its counter is 0
C1_UnmatchedFinish ==
    \E g \in Groups :
        /\ calls[g].on_start > 0
        /\ calls[g].on_finish > calls[g].on_start
        /\ groups[g].current_concurrent_runs = 0

\* the runs a worker's call fetched, and the batch a run is in
Fetched(w) ==
    {p \in Posts : \E i \in DOMAIN wk[w].runs_by_account :
        \E k \in DOMAIN wk[w].runs_by_account[i].run_ids :
            wk[w].runs_by_account[i].run_ids[k] = p}

BatchOf(w, p) ==
    LET i == CHOOSE n \in DOMAIN wk[w].runs_by_account :
                \E k \in DOMAIN wk[w].runs_by_account[n].run_ids :
                    wk[w].runs_by_account[n].run_ids[k] = p
    IN wk[w].runs_by_account[i]

\* the launch group a worker's call charges the run to (NULL: none)
ChargedTo(w, p) ==
    LET g == BatchOf(w, p).launch_group_id IN IF g = 0 THEN NULL ELSE g

RECURSIVE SumOver(_, _)
SumOver(S, f) ==
    IF S = {} THEN 0
    ELSE LET x == CHOOSE y \in S : TRUE IN f[x] + SumOver(S \ {x}, f)

\* the on_run_started calls the workers made for runs charged to group g
StartsCharged(g) ==
    LET pairs == {wp \in Workers \X Posts :
                     wp[2] \in Fetched(wp[1]) /\ ChargedTo(wp[1], wp[2]) = g}
    IN SumOver(pairs, [wp \in pairs |-> gh[wp[1]].on_start[wp[2]]])

\* the row's counts before the calls' first admission, windows rolled
RowAtFirstStart(g) ==
    IF calls[g].on_start = 0 THEN groups0[g] ELSE CanExecuteRunRow(groups0[g], now)

AllReturned == \A w \in Workers : At(w, "done")

(* C2: in process_pending_runs every run that is executed and is charged to  *)
(* a launch group has had on_run_started called exactly once, and once       *)
(* process_single has returned, on_run_finished exactly once, whatever       *)
(* execute_run returned; a run denied at admission has had neither; so the   *)
(* day and month counts of a group are up by exactly 1 per run started.      *)
C2_StartAndFinishOncePerJob ==
    /\ \A w \in Workers : \A p \in Fetched(w) :
          LET h == gh[w] IN
          /\ h.on_start[p] <= 1
          /\ h.on_finish[p] <= h.on_start[p]
          /\ ChargedTo(w, p) = NULL => h.on_start[p] = 0
          /\ ChargedTo(w, p) # NULL =>
                /\ p \in h.executed => h.on_start[p] = 1
                /\ p \notin h.returned => h.on_finish[p] = 0
                /\ p \in h.returned =>
                      /\ h.on_finish[p] = h.on_start[p]
                      /\ h.on_start[p] = 1 <=> p \in h.executed
    /\ \A g \in Groups :
          /\ calls[g].on_start = StartsCharged(g)
          /\ groups[g].current_day_run_count =
                RowAtFirstStart(g).current_day_run_count + calls[g].on_start
          /\ groups[g].current_month_run_count =
                RowAtFirstStart(g).current_month_run_count + calls[g].on_start

\* one call has returned with a run that failed, started and finished once,
\* and another run that was denied at admission with neither call made
C2_FailedAndDeniedJobs ==
    \E w \in Workers : \E p, q \in Fetched(w) :
        /\ At(w, "done")
        /\ ChargedTo(w, p) # NULL /\ ChargedTo(w, q) # NULL
        /\ p \in gh[w].executed /\ p \in gh[w].returned
        /\ status[p] = "FAILED"
        /\ gh[w].on_start[p] = 1 /\ gh[w].on_finish[p] = 1
        /\ q \in gh[w].returned /\ q \notin gh[w].executed
        /\ gh[w].on_start[q] = 0 /\ gh[w].on_finish[q] = 0
        /\ wk[w].stats.failed >= 1 /\ wk[w].stats.skipped_quota >= 1

(* C3: once the process_pending_runs calls have returned, no run is left    *)
(* RUNNING: every run that a call moved to RUNNING is SUCCESS or FAILED,     *)
(* whatever asset materialization, session allocation and the publisher did. *)
C3_NoJobLeftRunning ==
    AllReturned =>
        \A w \in Workers : \A p \in gh[w].ran : status[p] \in {"SUCCESS", "FAILED"}

(* C4: when the process_pending_runs calls have returned, each launch        *)
(* group's current_concurrent_runs is what it was before them, for any mix   *)
(* of failing and quota-skipped runs; until then it is that value plus the   *)
(* runs that are between their on_run_started and their on_run_finished.     *)
C4_ConcurrentReturnsToStart ==
    LET Running(g) == {w \in Workers :
            /\ wk[w].pc \in {"exec", "materialize", "allocate", "workflow",
                             "finish", "finish_commit"}
            /\ Batch(w).launch_group_id = g}
    IN \A g \in Groups :
          /\ groups[g].current_concurrent_runs =
                groups0[g].current_concurrent_runs + Cardinality(Running(g))
          /\ AllReturned =>
                groups[g].current_concurrent_runs = groups0[g].current_concurrent_runs

\* the calls have returned, one of them with a failed run and a run skipped
\* for quota, and a group that runs were charged to is back at its value
C4_ReturnedAfterMixedBatch ==
    /\ AllReturned
    /\ \E w \in Workers : wk[w].stats.failed >= 1 /\ wk[w].stats.skipped_quota >= 1
    /\ \E g \in Groups :
          /\ calls[g].on_start >= 2
          /\ calls[g].on_finish = calls[g].on_start
          /\ groups[g].current_concurrent_runs = groups0[g].current_concurrent_runs

\* the runs of a batch
RunsOf(b) == {b.run_ids[k] : k \in DOMAIN b.run_ids}

\* the batches of a worker's call the pre-check denied
DeniedBatches(w) ==
    {wk[w].runs_by_account[i] : i \in
        {n \in DOMAIN wk[w].runs_by_account :
            wk[w].runs_by_account[n].account_name \in gh[w].denied}}

(* C5: when the pre-check can_execute_run denies an account's batch, the     *)
(* call leaves every run of the batch as it was: it does not enter           *)
(* execute_run for it (so writes no status: a run no call executed is still  *)
(* PENDING or SCHEDULED), logs no event for it, opens no shared driver and   *)
(* allocates no session for the account, and calls neither on_run_started    *)
(* nor on_run_finished; the runs are counted as skipped_quota, not failed.   *)
C5_DeniedBatchUntouched ==
    \A w \in Workers : \A b \in DeniedBatches(w) :
        /\ b.account_name \notin gh[w].opened
        /\ wk[w].stats.skipped_quota >= Len(b.run_ids)
        /\ \A p \in RunsOf(b) :
              /\ p \notin gh[w].executed
              /\ p \notin gh[w].ran
              /\ gh[w].on_start[p] = 0 /\ gh[w].on_finish[p] = 0
              /\ \A e \in events : ~(e.post = p /\ e.by = w)
              /\ \A e \in events : e.post = p => e.type # "RUN_STARTED"
              /\ (\A v \in Workers : p \notin gh[v].executed) =>
                    status[p] = PostRows[p].status

\* a call has returned after the pre-check denied a two-run batch whose
\* group's day count was at its daily cap, and the runs are as they were
C5_BatchDeniedAtDailyCap ==
    \E w \in Workers : \E b \in DeniedBatches(w) :
        /\ At(w, "done")
        /\ Len(b.run_ids) = 2
        /\ LET row == groups[b.launch_group_id] IN
              /\ row.max_runs_per_day # NULL
              /\ row.current_day_run_count = row.max_runs_per_day
              /\ row.current_day_run_count > 0
        /\ \A p \in RunsOf(b) : status[p] = PostRows[p].status
        /\ wk[w].stats.skipped_quota >= 2 /\ wk[w].stats.processed = 0

\* a counter against its cap, a NULL cap being no cap
Within(count, cap) == cap = NULL \/ count <= cap

(* C6: when every on_run_started follows a can_execute_run that said yes,    *)
(* in the same transaction on the locked row, no counter ever exceeds its    *)
(* non-null cap: current_concurrent_runs <= max_concurrent_runs, and for the *)
(* window the row holds current_day_run_count <= max_runs_per_day and        *)
(* current_month_run_count <= max_runs_per_month, also when more admissions  *)
(* are asked for than quota is left and when several workers ask at once.    *)
C6_CapsAreStrict ==
    \A g \in Groups : calls[g].unadmitted = 0 =>
        /\ Within(groups[g].current_concurrent_runs, groups[g].max_concurrent_runs)
        /\ Within(groups[g].current_day_run_count, groups[g].max_runs_per_day)
        /\ Within(groups[g].current_month_run_count, groups[g].max_runs_per_month)

\* a group is at its concurrency cap after as many admissions, none of its
\* starts went around the admission, and another worker that holds the row
\* lock to be admitted is about to be denied
C6_DeniedAtTheCap ==
    \E g \in Groups : \E w \in Workers :
        /\ calls[g].unadmitted = 0
        /\ groups[g].max_concurrent_runs > 0
        /\ groups[g].current_concurrent_runs = groups[g].max_concurrent_runs
        /\ calls[g].on_start >= groups[g].max_concurrent_runs
        /\ rowLock[g] = w /\ At(w, "q_admit")
        /\ ~ValidateLimits(CanExecuteRunRow(txn[w], now))

\* the last allocate_for_dummy_account call: what it was given and what it did
Called == lastAlloc.account # 0
Cands == lastAlloc.cands
Made == lastAlloc.r.calls
Failing(id) == lastAlloc.cause[id].kind # "ok"
RateLimited(id) ==
    /\ lastAlloc.cause[id].kind = "sdk_error"
    /\ lastAlloc.cause[id].words \cap {"limit", "429"} # {}
AtCeiling == lastAlloc.live_before[NOVNC_AWS] >= MaxNovncConcurrentSessions
IdsOf(seq) == {seq[i] : i \in DOMAIN seq}

(* C7: for an account with one GOLOGIN and one NOVNC_AWS profile, when       *)
(* GOLOGIN's start_session raises a rate-limit error (and the container      *)
(* provider is below its ceiling and starts), the call returns a Session of  *)
(* NOVNC_AWS after calling GOLOGIN's start_session first; in every call the  *)
(* candidates are attempted one at a time in priority order, no container    *)
(* provider before GOLOGIN.                                                  *)
C7_FallbackInPriorityOrder ==
    Called =>
        /\ \A i, j \in DOMAIN Made :
              i < j => ~(ProviderOf(Made[i]) # GOLOGIN /\ ProviderOf(Made[j]) = GOLOGIN)
        /\ \A i, j \in DOMAIN Made : i # j => Made[i] # Made[j]
        /\ \A g, n \in ProfileIds :
              ( /\ IdsOf(Cands) = {g, n} /\ Len(Cands) = 2
                /\ ProviderOf(g) = GOLOGIN /\ ProviderOf(n) = NOVNC_AWS
                /\ RateLimited(g)
                /\ ~Failing(n) /\ ~AtCeiling )
              => /\ lastAlloc.r.session = n
                 /\ Made = <<g, n>>
                 /\ lastAlloc.r.errors \in {<<"GOLOGIN_LIMIT_REACHED">>, <<"GOLOGIN_API_429">>}

\* the call for the account with both kinds of profile came back with the
\* container session after GOLOGIN was rate-limited
C7_FellBackAfterRateLimit ==
    /\ Called
    /\ \E g, n \in ProfileIds :
          /\ ProviderOf(g) = GOLOGIN /\ ProviderOf(n) = NOVNC_AWS
          /\ Cands = <<g, n>>
          /\ RateLimited(g)
          /\ Made = <<g, n>>
          /\ lastAlloc.r.session = n
          /\ lastAlloc.live_after[NOVNC_AWS] = lastAlloc.live_before[NOVNC_AWS] + 1

RECURSIVE Total(_, _)
Total(live, codes) ==
    IF codes = {} THEN 0
    ELSE LET c == CHOOSE x \in codes : TRUE IN live[c] + Total(live, codes \ {c})

(* C9: when a candidate's start_session succeeds, the call returns that      *)
(* Session at once: the successful call is the last call made, no candidate  *)
(* after it is called, and the call leaves exactly one more session running; *)
(* no call leaves more than one.                                             *)
C9_ReturnsOnFirstSuccess ==
    Called =>
        /\ Total(lastAlloc.live_after, ProviderCodes)
              <= Total(lastAlloc.live_before, ProviderCodes) + 1
        /\ \A i \in DOMAIN Made :
              ~Failing(Made[i]) =>
                 /\ i = Len(Made)
                 /\ lastAlloc.r.session = Made[i]
                 /\ Total(lastAlloc.live_after, ProviderCodes)
                       = Total(lastAlloc.live_before, ProviderCodes) + 1
                 /\ lastAlloc.live_after[ProviderOf(Made[i])]
                       = lastAlloc.live_before[ProviderOf(Made[i])] + 1
                 /\ \A k \in DOMAIN Cands :
                       (\E m \in DOMAIN Cands : m < k /\ Cands[m] = Made[i])
                          => Cands[k] \notin IdsOf(Made)
                                /\ Cands[k] \notin IdsOf(lastAlloc.r.throttled)

\* the first candidate started, and a lower-priority candidate that is
\* below its ceiling was left alone
C9_SecondCandidateNotTried ==
    /\ Called
    /\ Len(Cands) = 2
    /\ Made = <<Cands[1]>>
    /\ lastAlloc.r.session = Cands[1]
    /\ ~AtCeiling
    /\ Total(lastAlloc.live_after, ProviderCodes) = 1

C11_AdmittedJobsExecuted ==
    \A w \in Workers : At(w, "done") =>
        \A p \in Fetched(w) :
            BatchOf(w, p).account_name \notin gh[w].denied =>
                \/ p \in gh[w].executed
                \/ p \in gh[w].returned /\ gh[w].on_start[p] = 0

(* C12: of two process_pending_runs calls running at once over the same      *)
(* store, at most one moves a given run to RUNNING and takes it on to the    *)
(* Publisher.                                                                *)
C12_ExecutedByOneWorker ==
    \A p \in Posts : Cardinality({w \in Workers : p \in gh[w].ran}) <= 1

(* C13: a run that is SUCCESS or FAILED keeps that status in every step of   *)
(* every process_pending_runs / execute_run call.                            *)
C13_TerminalStatusImmutable ==
    [][\A p \in Posts :
          status[p] \in {"SUCCESS", "FAILED"} => status'[p] = status[p]]_vars

(* C14: every change of a run's status is PENDING or SCHEDULED -> RUNNING,   *)
(* RUNNING -> SUCCESS or RUNNING -> FAILED, so that no run becomes SUCCESS   *)
(* or FAILED from a status other than RUNNING.                               *)
C14_OnlyLifecycleTransitions ==
    [][\A p \in Posts :
          status'[p] # status[p] =>
             \/ status[p] \in {"PENDING", "SCHEDULED"} /\ status'[p] = "RUNNING"
             \/ status[p] = "RUNNING" /\ status'[p] \in {"SUCCESS", "FAILED"}]_vars

(* C15: execute_run does not return from an attempt whose Publisher call     *)
(* failed with an error classified as a provider error while attempts remain *)
(* and the account has an active profile of another provider: it retries on  *)
(* that other provider.                                                      *)
C15_RetriedOnAnotherProvider ==
    \A w \in Workers :
        ( /\ At(w, "finish")
          /\ wk[w].failed_at = "publisher"
          /\ IsProviderError(wk[w].error)
          /\ wk[w].attempt < MaxAttempts )
        => GetFallbackProfile(PostRows[RunId(w)].dummy_account_id, profileStatus,
                              wk[w].browser_session) = 0

(* C16: execute_run makes at most max_attempts (3) attempts for a run; it    *)
(* makes another attempt only after a Publisher failure classified as a      *)
(* provider error, never after any other failure; and when it returns after  *)
(* an attempt, the run has been written SUCCESS or FAILED.                   *)
C16_AttemptsBounded ==
    /\ [](\A w \in Workers :
            /\ wk[w].attempt <= MaxAttempts
            /\ wk[w].attempt >= 2 =>
                  wk[w].failed_at = "publisher" /\ IsProviderError(wk[w].error)
            /\ (wk[w].failed_at # "none" /\ ~IsProviderError(wk[w].error)) =>
                  wk[w].pc \in {"finish", "finish_commit"} /\ wk[w].attempt = 1)
    /\ [][\A w \in Workers :
            (wk[w].pc \in {"allocate", "workflow"} /\ wk'[w].pc = "finish"
                /\ wk'[w].attempt >= 1)
            => status'[RunId(w)] \in {"SUCCESS", "FAILED"}]_vars

\* a run's only attempt failed to connect to the session, an error that is
\* not a provider error: execute_run returned "failed" without another attempt
C16_ConnectFailureNotRetried ==
    \E w \in Workers :
        /\ At(w, "finish")
        /\ wk[w].attempt = 1
        /\ wk[w].failed_at = "connect"
        /\ ~IsProviderError(wk[w].error)
        /\ wk[w].result = "failed"
        /\ status[RunId(w)] = "FAILED"

\* the launch_groups rows as committed, and as loaded by the open sessions
RowsInHand ==
    {groups[g] : g \in Groups} \cup {txn[w] : w \in {v \in Workers : txn[v] # NoRow}}

(* C17: with the workers' on_run_started and on_run_finished calls on one    *)
(* launch group interleaved in any way, the committed row counts every call: *)
(* current_concurrent_runs is the on_run_started calls minus the             *)
(* on_run_finished calls that followed a start of their own, and while no    *)
(* day (month) boundary has been crossed the day (month) count is the number *)
(* of on_run_started calls.                                                  *)
C17_NoLostUpdate ==
    \A g \in Groups :
        LET c == calls[g]
            row == groups[g]
        IN /\ row.current_concurrent_runs = c.on_start - (c.on_finish - c.unmatched)
           /\ c.unmatched = 0 => row.current_concurrent_runs = c.on_start - c.on_finish
           /\ row.current_day_run_count <= c.on_start
           /\ row.current_month_run_count <= c.on_start
           /\ (row.day_window_start = NULL \/ (c.unadmitted = 0 /\ DateOf(now) = 0))
                 => row.current_day_run_count = c.on_start
           /\ (row.month_window_start = NULL \/ (c.unadmitted = 0 /\ MonthIndex(now) = 0))
                 => row.current_month_run_count = c.on_start

\* two admitted starts and one finish of its own have been committed for a
\* group within the first day, and another call holds the row lock
C17_TwoStartsOneFinish ==
    \E g \in Groups : \E w \in Workers :
        /\ calls[g] = [on_start |-> 2, on_finish |-> 1, unadmitted |-> 0, unmatched |-> 0]
        /\ DateOf(now) = 0
        /\ groups[g].current_concurrent_runs = 1
        /\ groups[g].current_day_run_count = 2
        /\ groups[g].current_month_run_count = 2
        /\ rowLock[g] = w /\ At(w, "q_finish")

\* the counts and window starts of a row
Windows(row) ==
    <<row.current_day_run_count, row.current_month_run_count,
      row.day_window_start, row.month_window_start>>

(* C18: a can_execute_run that follows another within the same UTC day and   *)
(* month resets nothing: on the row the first call left, with or without an  *)
(* on_run_started after it, a call at any later instant of the same day and  *)
(* month leaves both counts and both window starts as they are; and a row    *)
(* whose windows were opened this day and month is left as it is.            *)
C18_RepeatedCheckResetsNothing ==
    \A r \in RowsInHand :
        /\ \A t2 \in now..MaxNow :
              (DateOf(t2) = DateOf(now) /\ MonthIndex(t2) = MonthIndex(now)) =>
                 LET a == CanExecuteRunRow(r, now)
                     s == OnRunStarted(a)
                 IN /\ Windows(CanExecuteRunRow(a, t2)) = Windows(a)
                    /\ Windows(CanExecuteRunRow(s, t2)) = Windows(s)
        /\ ( /\ r.day_window_start # NULL /\ r.month_window_start # NULL
             /\ r.day_window_start <= now /\ r.month_window_start <= now
             /\ DateOf(r.day_window_start) = DateOf(now)
             /\ MonthIndex(r.month_window_start) = MonthIndex(now) )
           => Windows(CanExecuteRunRow(r, now)) = Windows(r)

\* a can_execute_run call is under way on a row whose day window was opened
\* earlier the same day and has a run counted
C18_SecondCheckSameDay ==
    \E w \in Workers :
        /\ wk[w].pc \in {"q_check", "q_admit"}
        /\ txn[w].day_window_start # NULL
        /\ txn[w].day_window_start < now
        /\ DateOf(txn[w].day_window_start) = DateOf(now)
        /\ txn[w].current_day_run_count >= 1
        /\ Windows(CanExecuteRunRow(txn[w], now)) = Windows(txn[w])

\* the day (month) window of a row is not the one the instant t lies in
StaleDay(row, t) ==
    row.day_window_start = NULL \/ DateOf(row.day_window_start) # DateOf(t)
StaleMonth(row, t) ==
    \/ row.month_window_start = NULL
    \/ MonthOf(row.month_window_start) # MonthOf(t)
    \/ YearOf(row.month_window_start) # YearOf(t)

AtOrOver(count, cap) == cap # NULL /\ count >= cap

(* C20: on the row as the window resets left it, can_execute_run returns     *)
(* True exactly when every cap that is not NULL is strictly above its        *)
(* counter; otherwise it returns False at the first cap, in the order        *)
(* concurrency, day, month, whose counter is at or over it.                  *)
C20_FirstCapAtLimitDenies ==
    \A r \in RowsInHand :
        LET a == CanExecuteRunRow(r, now)
            oc == AtOrOver(a.current_concurrent_runs, a.max_concurrent_runs)
            od == AtOrOver(a.current_day_run_count, a.max_runs_per_day)
            om == AtOrOver(a.current_month_run_count, a.max_runs_per_month)
        IN /\ CanExecuteRun(r, now) <=> (~oc /\ ~od /\ ~om)
           /\ CanExecuteRun(r, now) <=>
                 /\ a.max_concurrent_runs # NULL =>
                       a.max_concurrent_runs > a.current_concurrent_runs
                 /\ a.max_runs_per_day # NULL =>
                       a.max_runs_per_day > a.current_day_run_count
                 /\ a.max_runs_per_month # NULL =>
                       a.max_runs_per_month > a.current_month_run_count
           /\ QuotaHit(a) = "concurrent" <=> oc
           /\ QuotaHit(a) = "day" <=> (~oc /\ od)
           /\ QuotaHit(a) = "month" <=> (~oc /\ ~od /\ om)

\* an admission is under way on a row with both the concurrency cap and the
\* day cap reached: it is denied for concurrency
C20_DeniedForConcurrencyFirst ==
    \E w \in Workers :
        /\ At(w, "q_admit")
        /\ LET a == CanExecuteRunRow(txn[w], now) IN
              /\ AtOrOver(a.current_concurrent_runs, a.max_concurrent_runs)
              /\ AtOrOver(a.current_day_run_count, a.max_runs_per_day)
              /\ a.current_day_run_count > 0
              /\ QuotaHit(a) = "concurrent"
              /\ ~CanExecuteRun(txn[w], now)

\* a cap of the row is 0
ZeroCap(row) == row.max_concurrent_runs = 0 \/ row.max_runs_per_day = 0

(* C21: for a launch group row with max_concurrent_runs = 0, and likewise    *)
(* with max_runs_per_day = 0, can_execute_run returns False now and at any   *)
(* later instant, whatever the other caps, the counters and the window       *)
(* starts are; and no run of such a group is ever admitted.                  *)
C21_ZeroCapNeverAdmits ==
    /\ \A r \in RowsInHand : \A t \in now..MaxNow :
          ZeroCap(r) => ~CanExecuteRun(r, t)
    /\ \A g \in Groups :
          ZeroCap(groups[g]) => calls[g].on_start = calls[g].unadmitted

\* an admission is under way, on a later day, for a group whose day cap is 0
\* and whose concurrency cap is not reached; the row has counted a run that
\* was started without an admission
C21_ZeroDayCapChecked ==
    \E w \in Workers :
        /\ At(w, "q_admit")
        /\ txn[w].max_runs_per_day = 0
        /\ txn[w].max_concurrent_runs # 0
        /\ txn[w].current_month_run_count >= 1
        /\ DateOf(now) >= 1
        /\ QuotaHit(CanExecuteRunRow(txn[w], now)) = "day"
        /\ ~CanExecuteRun(txn[w], now)

(* C22: can_execute_run, at this or any later instant, leaves the caps and   *)
(* current_concurrent_runs of the row as they were and raises no count: a    *)
(* count it changes becomes 0 and its window start becomes the instant of    *)
(* the call, a window start it changes is the one of a count it set to 0,    *)
(* and a second call at the same instant changes nothing more; and the       *)
(* committed row of a group changes only with an on_run_started or an        *)
(* on_run_finished call, never with a check alone.                           *)
C22_CheckChangesOnlyResetFields ==
    /\ [](\A r \in RowsInHand : \A t \in now..MaxNow :
            LET a == CanExecuteRunRow(r, t) IN
            /\ a.max_concurrent_runs = r.max_concurrent_runs
            /\ a.max_runs_per_day = r.max_runs_per_day
            /\ a.max_runs_per_month = r.max_runs_per_month
            /\ a.current_concurrent_runs = r.current_concurrent_runs
            /\ a.current_day_run_count \in {0, r.current_day_run_count}
            /\ a.current_month_run_count \in {0, r.current_month_run_count}
            /\ a.current_day_run_count <= r.current_day_run_count
            /\ a.current_month_run_count <= r.current_month_run_count
            /\ a.day_window_start \in {t, r.day_window_start}
            /\ a.month_window_start \in {t, r.month_window_start}
            /\ a.current_day_run_count # r.current_day_run_count
                  => a.day_window_start = t
            /\ a.day_window_start # r.day_window_start
                  => a.current_day_run_count = 0
            /\ a.current_month_run_count # r.current_month_run_count
                  => a.month_window_start = t
            /\ a.month_window_start # r.month_window_start
                  => a.current_month_run_count = 0
            /\ CanExecuteRunRow(a, t) = a)
    /\ [][\A g \in Groups :
             groups'[g] # groups[g] =>
                \/ calls'[g].on_start = calls[g].on_start + 1
                \/ calls'[g].on_finish = calls[g].on_finish + 1]_vars

\* a check alone is under way on a row with a run in flight and a day count
\* from an earlier day: the check resets the day window and leaves
\* current_concurrent_runs as it is
C22_CheckResetsDayOnly ==
    \E w \in Workers :
        /\ At(w, "q_check")
        /\ txn[w].current_concurrent_runs >= 1
        /\ txn[w].current_day_run_count >= 1
        /\ txn[w].day_window_start # NULL
        /\ DateOf(txn[w].day_window_start) < DateOf(now)
        /\ LET a == CanExecuteRunRow(txn[w], now) IN
              /\ a.current_day_run_count = 0
              /\ a.day_window_start = now
              /\ a.current_concurrent_runs = txn[w].current_concurrent_runs

\* worker w is inside execute_run, between its first and its last statement
InExecuteRun(w) == wk[w].pc \in {"exec", "materialize", "allocate", "workflow"}

C24_SecondMaterializeDoesNotFetch ==
    \A p \in Posts : \A ok1, ok2 \in BOOLEAN :
        LET m1 == MaterializeAsset(p, jobDir[p], ok1)
            m2 == MaterializeAsset(p, m1.populated, ok2)
        IN /\ jobDir[p] => (m1.returned /\ ~m1.fetched /\ m1.path = p)
           /\ m1.returned =>
                 /\ m2.returned /\ ~m2.fetched
                 /\ m2.path = m1.path
                 /\ m2.populated
                 /\ Cardinality({m \in {<<1, m1>>, <<2, m2>>} : m[2].fetched}) <= 1

\* execute_run is about to materialize the asset again (step 4) with the
\* file of its earlier call in the job directory
C24_FileInPlaceAtStepFour ==
    \E w \in Workers :
        /\ At(w, "allocate")
        /\ status[RunId(w)] = "RUNNING"
        /\ jobDir[RunId(w)]
        /\ ~MaterializeAsset(RunId(w), jobDir[RunId(w)], FALSE).fetched

\* the start_session call has ended, one way or the other
Ended == ps.pc = "done"

FoundReachable == ps.port_open \/ ps.ready

(* C26: a container provider's start_session returns a Session only if the   *)
(* control port was assigned and found reachable during polling, and a call  *)
(* whose polling ran out without the port ever being reachable returns no    *)
(* Session.                                                                  *)
C26_SessionOnlyIfReachable ==
    /\ ps.session => (ps.host_port /\ FoundReachable)
    /\ (Ended /\ ps.polls = PortRetries(ps.provider) /\ ~FoundReachable)
          => ~ps.session

(* C27: the error a container provider's start_session raises carries the    *)
(* kind of its cause: ..._CRASH when the container exited during polling,    *)
(* ..._TIMEOUT when the polling ran out.                                     *)
C27_ErrorCarriesTypedKind ==
    (Ended /\ ps.raised \in {"CRASH", "TIMEOUT"}) => ps.code = ps.raised

\* an upper bound of the steps a start_session call has left
Remaining(l) ==
    CASE l.pc = "port_poll" -> l.retries + HealthChecks(l.provider) + 3
      [] l.pc = "after_port" -> HealthChecks(l.provider) + 2
      [] l.pc = "health" -> (HealthChecks(l.provider) - l.i) + 1
      [] l.pc = "after_health" -> 1
      [] OTHER -> 0

(* C28: a container provider's start_session polls the port mapping at most  *)
(* `retries` times (20 or 30) and the readiness endpoint at most 60 times;   *)
(* every step of a call brings it strictly closer to its end, a call under   *)
(* way can always take a step, and a call that ended returned a Session or   *)
(* raised, never both.                                                       *)
C28_StartSessionTerminates ==
    /\ [](ps.pc # "idle" =>
            /\ ps.polls <= PortRetries(ps.provider)
            /\ ps.checks <= HealthChecks(ps.provider)
            /\ ps.polls + ps.retries <= PortRetries(ps.provider) + 1
            /\ Remaining(ps) >= 0
            /\ Remaining(ps) <= PortRetries(ps.provider) + HealthChecks(ps.provider) + 3
            /\ Ended => (ps.session <=> ps.code = "none")
            /\ ~Ended => ENABLED NextStart)
    /\ [][ps.pc \notin {"idle", "done"} => Remaining(ps') < Remaining(ps)]_vars

\* NovncAwsProvider ran every poll of both loops and then ended
C28_BothLoopsRunOut ==
    /\ Ended
    /\ ps.provider = NOVNC_AWS
    /\ ps.polls = NovncAwsRetries
    /\ ps.checks = NovncAwsHealthChecks

(* C29: once every process_pending_runs call has returned, no session that   *)
(* was started for a job or for an account batch is still running: the       *)
(* shared drivers are closed and every allocated session has been stopped,   *)
(* those of failed attempts included.                                        *)
C29_SessionsStoppedOnReturn ==
    AllReturned =>
       /\ \A c \in ProviderCodes : liveSessions[c] = 0
       /\ \A w \in Workers : ~wk[w].shared_driver

(* C30: while the runs of an account batch run on the shared session opened  *)
(* for the batch, no other session is started for a run or for an attempt:   *)
(* the batch's one session is the only one its runs use.                     *)
C30_SharedSessionStartedOnce ==
    \A w \in Workers :
        wk[w].shared_driver => wk[w].browser_session = "none"

(* C37: on_run_started adds exactly 1 to each of current_concurrent_runs,    *)
(* current_day_run_count and current_month_run_count and changes nothing     *)
(* else; on_run_finished takes 1 from current_concurrent_runs, floored at 0, *)
(* and changes nothing else: not the day and month counts, the caps or the   *)
(* window starts. It holds of every row the callers reach and of every       *)
(* committed call.                                                           *)
C37_StartAddsOneFinishTakesOne ==
    /\ [](\A r \in RowsInHand :
            /\ OnRunStarted(r) =
                  [r EXCEPT !.current_concurrent_runs = r.current_concurrent_runs + 1,
                            !.current_day_run_count = r.current_day_run_count + 1,
                            !.current_month_run_count = r.current_month_run_count + 1]
            /\ OnRunFinished(r) =
                  [r EXCEPT !.current_concurrent_runs =
                               IF r.current_concurrent_runs >= 1
                               THEN r.current_concurrent_runs - 1 ELSE 0]
            /\ OnRunFinished(r).current_concurrent_runs >= 0
            /\ Windows(OnRunFinished(r)) = Windows(r))
    /\ [][\A g \in Groups :
             /\ calls'[g].on_finish = calls[g].on_finish + 1 =>
                   /\ Windows(groups'[g]) = Windows(groups[g])
                   /\ groups'[g] =
                         [groups[g] EXCEPT !.current_concurrent_runs =
                                              IF @ >= 1 THEN @ - 1 ELSE 0]
             /\ calls'[g].unadmitted = calls[g].unadmitted + 1 =>
                   groups'[g] =
                      [groups[g] EXCEPT !.current_concurrent_runs = @ + 1,
                                        !.current_day_run_count = @ + 1,
                                        !.current_month_run_count = @ + 1]]_vars

\* an on_run_finished call is under way on a row with a run in flight and
\* runs counted this day and month
C37_FinishWithCountsStanding ==
    \E w \in Workers :
        /\ At(w, "q_finish")
        /\ txn[w].current_concurrent_runs = 2
        /\ txn[w].current_day_run_count = 2
        /\ txn[w].current_month_run_count = 2
        /\ OnRunFinished(txn[w]).current_concurrent_runs = 1
        /\ OnRunFinished(txn[w]).current_day_run_count = 2

(* C40: whenever a container provider's start_session raises after the       *)
(* container was created - it exited during polling, the compute API failed, *)
(* or the polling ran out - the container has been stopped and removed.      *)
C40_NoContainerLeftByFailedStart ==
    (Ended /\ ~ps.session /\ ps.container # "none") => ps.container = "removed"

----------------------------------------------------------------------------
(* SpecFetch: the first lines of process_pending_runs - get_pending_runs    *)
(* and the grouping of what it returned by account name - by two workers    *)
(* (limits Limit and SmallLimit) at any reading of the clock, over posts in *)
(* any status and over accounts that may share a name: dummy_accounts is    *)
(* unique on (platform_id, username), not on name.                          *)

SameNameTables == {
    [a \in Accounts |-> [name |-> "alice", launch_group_id |-> IF a = 1 THEN 1 ELSE 2]],
    [a \in Accounts |-> [name |-> "alice", launch_group_id |-> IF a = 1 THEN 1 ELSE NULL]] }

\* the statuses update_run_status has written to a post, or the one it was
\* created with
PostStatuses(p) == {PostRows[p].status, "RUNNING", "FAILED"}

InitFetch ==
    /\ LedgerIdle
    /\ AllocInit
    /\ accounts \in AccountTables \cup SameNameTables
    /\ assets = [p \in Posts |-> TRUE]
    /\ status \in {st \in [Posts -> {"PENDING", "SCHEDULED", "RUNNING", "FAILED"}] :
                      \A p \in Posts : st[p] \in PostStatuses(p)}
    /\ events = {}
    /\ jobDir = [p \in Posts |-> FALSE]
    /\ retry_count = [r \in Runs |-> 0]
    /\ JobsInit

NextFetch ==
    \/ \E w \in Workers : Fetch(w)
    \/ Tick

SpecFetch == InitFetch /\ [][NextFetch]_vars

(* C34: process_pending fetches at most limit jobs, each of them PENDING or  *)
(* SCHEDULED with scheduled_at <= now, and they are the first limit such     *)
(* jobs in (scheduled_at, id) order; a SCHEDULED job whose scheduled_at is   *)
(* in the future is never among the jobs a call goes on to execute.          *)
C34_FetchesFirstDueUpToLimit ==
    /\ [](\A w \in Workers : \A p \in Fetched(w) :
             ~(status[p] = "SCHEDULED" /\ PostRows[p].scheduled_at > now))
    /\ [][LET Due(p) ==
                  \/ status[p] = "PENDING"
                  \/ status[p] = "SCHEDULED" /\ PostRows[p].scheduled_at # NULL
                                             /\ PostRows[p].scheduled_at <= now
              \* (scheduled_at, id) ascending, a post without scheduled_at last
              Earlier(p, q) ==
                  LET sp == PostRows[p].scheduled_at
                      sq == PostRows[q].scheduled_at
                  IN \/ sp # NULL /\ sq = NULL
                     \/ sp # NULL /\ sq # NULL /\ sp < sq
                     \/ sp = sq /\ p < q
          IN \A w \in Workers :
                (At(w, "idle") /\ wk'[w].pc # "idle") =>
                   /\ Cardinality(Fetched(w)') <= LimitOf(w)
                   /\ \A p \in Fetched(w)' : Due(p)
                   /\ \A q \in Posts \ Fetched(w)' :
                         Due(q) => /\ Cardinality(Fetched(w)') = LimitOf(w)
                                   /\ \A p \in Fetched(w)' : Earlier(p, q)]_vars

\* a call has fetched its limit of jobs, leaving out both a due job that
\* comes later in the order and a SCHEDULED job whose time has not come
C34_FutureAndOverLimitLeftOut ==
    \E w \in Workers :
        /\ ~At(w, "idle")
        /\ Cardinality(Fetched(w)) = LimitOf(w)
        /\ \E q \in Posts \ Fetched(w) : status[q] = "PENDING"
        /\ \E q \in Posts \ Fetched(w) :
              status[q] = "SCHEDULED" /\ PostRows[q].scheduled_at > now

(* C39: every job is admitted against, and charged to, the quota group of    *)
(* its own account: the launch group the call uses for a fetched job is the  *)
(* launch group of the account that owns the job, also when two accounts in  *)
(* one fetch carry the same name or belong to different groups or to none.   *)
C39_ChargedToOwnAccountsGroup ==
    \A w \in Workers : \A p \in Fetched(w) :
        ChargedTo(w, p) = accounts[PostRows[p].dummy_account_id].launch_group_id

----------------------------------------------------------------------------
(* SpecUpdate: PublishingRunService.update_run_status called by two workers, *)
(* each call in its own database session under PostgreSQL's READ COMMITTED:  *)
(* session.get and the lazy load of post.run read the rows, `+= 1` computes  *)
(* the new retry_count from the value read, and session.commit() writes the  *)
(* changed columns.  No row lock is taken.                                   *)

MaxRetries == 2

\* the statuses execute_run passes to update_run_status
WrittenStatuses == {"RUNNING", "SUCCESS", "FAILED"}

\* post = session.get(PublishingPost, run_id); post.run is loaded
UpdateBegin(w, p, st) ==
    /\ upd[w].pc = "idle"
    /\ retry_count[PostRows[p].publishing_run_id] < MaxRetries
    /\ upd' = [upd EXCEPT ![w] = [pc |-> "loaded", post |-> p, status |-> st,
                                  seen |-> retry_count[PostRows[p].publishing_run_id]]]
    /\ UNCHANGED <<ledgerVars, allocVars, storeVars, wk, gh, groups0, ps, sel>>

\* post.status = status; if status == "FAILED": post.run.retry_count += 1;
\* session.commit()
UpdateCommit(w) ==
    /\ upd[w].pc = "loaded"
    /\ status' = [status EXCEPT ![upd[w].post] = upd[w].status]
    /\ retry_count' =
          IF upd[w].status = "FAILED"
          THEN [retry_count EXCEPT ![PostRows[upd[w].post].publishing_run_id] =
                                       upd[w].seen + 1]
          ELSE retry_count
    /\ upd' = [upd EXCEPT ![w] = NoUpdate]
    /\ UNCHANGED <<ledgerVars, allocVars, accounts, assets, events, jobDir, wk, gh,
                   groups0, ps, sel>>

InitUpdate == LedgerIdle /\ AllocInit /\ JobsIdle

NextUpdate ==
    \/ \E w \in Workers, p \in Posts, st \in WrittenStatuses : UpdateBegin(w, p, st)
    \/ \E w \in Workers : UpdateCommit(w)

SpecUpdate == InitUpdate /\ [][NextUpdate]_vars

(* C36: each transition of a post to FAILED increases its parent run's       *)
(* retry_count by exactly 1, and no other status transition changes any      *)
(* retry_count.                                                              *)
C36_FailedAddsOneRetry ==
    [][\A r \in Runs :
          LET failed == {p \in Posts : /\ PostRows[p].publishing_run_id = r
                                       /\ status[p] # "FAILED"
                                       /\ status'[p] = "FAILED"}
          IN retry_count'[r] = retry_count[r] + Cardinality(failed)]_vars

(* C33: stop_session of a container provider is idempotent: called again for *)
(* a session whose container is already gone it raises no error and changes  *)
(* nothing, and no stop_session call ever raises to its caller.              *)
C33_StopSessionIdempotent ==
    /\ [](~ps.stop_raised)
    /\ [][(ps.container = "removed" /\ ps'.stops = ps.stops + 1) =>
             ps' = [ps EXCEPT !.stops = @ + 1]]_vars

\* stop_session has been called twice for one session: the first call removed
\* the container, the second found none
C33_StoppedTwice ==
    /\ ps.session
    /\ ps.stops = 2
    /\ ps.container = "removed"

----------------------------------------------------------------------------
(* SpecSelect: BrowserProviderAllocator.allocate, called once for an account *)
(* over every table of browser_provider_profiles rows and every setting of   *)
(* the providers' is_active flags within the bounds.                         *)

\* the profile rows of account 1 (account 2 has none); last_used_at is NULL
\* or a tick
ProfileRows ==
    [{1, 2, 3} -> [dummy_account_id : {1},
                   provider : {GOLOGIN, NOVNC, NOVNC_AWS},
                   status : {"active", "exhausted"},
                   is_default : BOOLEAN,
                   last_used_at : {NULL, 1, 2}]]

\* BrowserProviderAllocator.PROVIDER_PRIORITY
PROVIDER_PRIORITY == <<GOLOGIN, NOVNC>>

Loaded_AnyProvider(rows, active, a) ==
    {id \in DOMAIN rows : /\ rows[id].dummy_account_id = a
                          /\ rows[id].status = "active"}

\* the where clause of allocate's query
Loaded(rows, active, a) ==
    {id \in DOMAIN rows : /\ rows[id].dummy_account_id = a
                          /\ rows[id].status = "active"
                          /\ active[rows[id].provider]}

\* ORDER BY is_default DESC, last_used_at DESC NULLS LAST: x sorts before y
SortsBefore(x, y) ==
    \/ x.is_default /\ ~y.is_default
    \/ /\ x.is_default = y.is_default
       /\ x.last_used_at # NULL
       /\ (y.last_used_at = NULL \/ x.last_used_at > y.last_used_at)

\* the rows that can come first among S in the query's order (rows equal in
\* both sort keys come in any order)
FirstOf(rows, S) == {id \in S : \A other \in S : ~SortsBefore(rows[other], rows[id])}

\* the profile ids allocate can return (0: None, None, None)
AllocateChoices(rows, active, a) ==
    LET profiles == Loaded(rows, active, a)
        Of(code) == {id \in profiles : rows[id].provider = code}
        \* _is_provider_available: the provider exists and is_active
        Usable(i) == Of(PROVIDER_PRIORITY[i]) # {} /\ active[PROVIDER_PRIORITY[i]]
    IN IF profiles = {} THEN {0}
       ELSE IF \E i \in DOMAIN PROVIDER_PRIORITY : Usable(i)
            THEN LET i == CHOOSE k \in DOMAIN PROVIDER_PRIORITY :
                             Usable(k) /\ \A j \in 1..(k - 1) : ~Usable(j)
                 IN FirstOf(rows, Of(PROVIDER_PRIORITY[i]))
            ELSE FirstOf(rows, profiles)

\* allocate(session, dummy_account_id)
Select(a) ==
    /\ sel.pc = "loaded"
    /\ \E id \in AllocateChoices(sel.rows, sel.is_active, a) :
          sel' = [sel EXCEPT !.pc = "done", !.account = a, !.selected = id]
    /\ UNCHANGED <<ledgerVars, allocVars, storeVars, wk, gh, groups0, ps, upd>>

InitSelect ==
    /\ LedgerIdle /\ AllocInit
    /\ accounts = [a \in Accounts |-> [name |-> IF a = 1 THEN "alice" ELSE "bob",
                                       launch_group_id |-> 1]]
    /\ assets = [p \in Posts |-> TRUE]
    /\ status = [p \in Posts |-> PostRows[p].status]
    /\ events = {}
    /\ jobDir = [p \in Posts |-> FALSE]
    /\ retry_count = [r \in Runs |-> 0]
    /\ wk = [w \in Workers |-> Idle]
    /\ gh = [w \in Workers |-> NoHistory]
    /\ groups0 = groups
    /\ ps = NoCall
    /\ upd = [w \in Workers |-> NoUpdate]
    /\ \E rows \in ProfileRows, active \in [{GOLOGIN, NOVNC, NOVNC_AWS} -> BOOLEAN] :
          sel = [NoSelect EXCEPT !.pc = "loaded", !.rows = rows, !.is_active = active]

NextSelect == \E a \in Accounts : Select(a)

SpecSelect == InitSelect /\ [][NextSelect]_vars

(* C38: allocate returns a profile only from the account's status=active     *)
(* profiles whose provider is_active - never an exhausted profile or one of  *)
(* an inactive provider; the profile is of the highest-priority provider     *)
(* present (a remote-profile provider before a container-based one) and,     *)
(* within that provider, a default profile before the others and then the    *)
(* most recently used; it returns none exactly when no such profile exists.  *)
C38_AllocateSelectsByPriority ==
    sel.pc = "done" =>
       LET rows == sel.rows
           Eligible(id) == /\ rows[id].dummy_account_id = sel.account
                           /\ rows[id].status = "active"
                           /\ sel.is_active[rows[id].provider]
           s == sel.selected
       IN /\ s = 0 <=> ~\E id \in DOMAIN rows : Eligible(id)
          /\ s # 0 =>
                /\ Eligible(s)
                /\ \A id \in DOMAIN rows :
                      (Eligible(id) /\ rows[id].provider = GOLOGIN) =>
                          rows[s].provider = GOLOGIN
                /\ \A id \in DOMAIN rows :
                      (Eligible(id) /\ rows[id].provider = rows[s].provider) =>
                          /\ rows[id].is_default => rows[s].is_default
                          /\ (rows[id].is_default = rows[s].is_default
                               /\ rows[id].last_used_at # NULL) =>
                                 /\ rows[s].last_used_at # NULL
                                 /\ rows[s].last_used_at >= rows[id].last_used_at

\* allocate returned a remote-profile provider's profile that is not a
\* default, passing over a default profile of a container-based provider, an
\* exhausted profile, and a less recently used profile of its own provider
C38_PriorityBeforeDefault ==
    /\ sel.pc = "done"
    /\ sel.selected # 0
    /\ LET rows == sel.rows
           s == sel.selected
       IN /\ rows[s].provider = GOLOGIN /\ ~rows[s].is_default
          /\ \E id \in DOMAIN rows : /\ rows[id].provider = NOVNC
                                     /\ rows[id].status = "active"
                                     /\ rows[id].is_default
                                     /\ sel.is_active[NOVNC]
          /\ \E id \in DOMAIN rows : /\ id # s
                                     /\ rows[id].provider = GOLOGIN
                                     /\ rows[id].status = "active"
                                     /\ rows[id].last_used_at # NULL
                                     /\ rows[id].last_used_at < rows[s].last_used_at

----------------------------------------------------------------------------
(* SpecOutage: process_pending_runs as in Spec, with the store becoming      *)
(* unreachable for a worker at some point before one of its execute_run      *)
(* calls: from then on every database call of that worker raises.  A call    *)
(* ends at "done" (process_pending_runs returned its stats: main prints the  *)
(* result and returns 0) or at "raised" (the exception left                  *)
(* process_pending_runs: main returns 1).                                    *)

\* the worker's connections to the store start failing
Outage(w) ==
    /\ wk[w].pc \in {"idle", "precheck", "open", "admit", "exec"}
    /\ ~wk[w].store_down
    /\ wk' = [wk EXCEPT ![w].store_down = TRUE]
    /\ UNCHANGED <<ledgerVars, allocVars, storeVars, gh, groups0, ps, upd, sel>>

\* get_pending_runs raises inside try/finally: nothing catches it
FetchUnreachable(w) ==
    /\ At(w, "idle")
    /\ wk[w].store_down
    /\ wk' = [wk EXCEPT ![w].pc = "raised", ![w].store_error = TRUE]
    /\ UNCHANGED <<ledgerVars, allocVars, storeVars, gh, groups0, ps, upd, sel>>

\* the pre-check's can_execute_run raises, outside any try
PreCheckUnreachable(w) ==
    /\ At(w, "precheck")
    /\ wk[w].store_down
    /\ HasGroup(w)
    /\ wk' = [wk EXCEPT ![w].pc = "raised", ![w].store_error = TRUE]
    /\ UNCHANGED <<ledgerVars, allocVars, storeVars, gh, groups0, ps, upd, sel>>

\* process_single's can_execute_run raises: the shared-session loop's except
\* or the batch's except logs it, and the loop goes on to the next account
AdmitUnreachable(w) ==
    /\ At(w, "admit")
    /\ wk[w].store_down
    /\ HasGroup(w)
    /\ wk' = [wk EXCEPT ![w] = NextBatch([@ EXCEPT !.store_error = TRUE])]
    /\ UNCHANGED <<ledgerVars, allocVars, storeVars, gh, groups0, ps, upd, sel>>

\* execute_run's session.get raises: the outer except returns "system_error".
\* With a launch group, on_run_finished in process_single's finally raises as
\* well and the batch's except logs it
ExecUnreachable(w) ==
    /\ At(w, "exec")
    /\ wk[w].store_down
    /\ wk' = [wk EXCEPT ![w] =
                IF HasGroup(w)
                THEN NextBatch([@ EXCEPT !.store_error = TRUE])
                ELSE [@ EXCEPT !.pc = "finish", !.result = "system_error",
                               !.store_error = TRUE]]
    /\ gh' = [gh EXCEPT ![w].executed = @ \cup {RunId(w)}]
    /\ UNCHANGED <<ledgerVars, allocVars, storeVars, groups0, ps, upd, sel>>

NextOutage ==
    \/ Next /\ \A w \in Workers : wk[w].store_down => wk'[w] = wk[w]
    \/ \E w \in Workers : Outage(w)
    \/ \E w \in Workers : FetchUnreachable(w)
    \/ \E w \in Workers : PreCheckUnreachable(w)
    \/ \E w \in Workers : AdmitUnreachable(w)
    \/ \E w \in Workers : ExecUnreachable(w)
    \* the steps that make no database call
    \/ \E w \in Workers : wk[w].store_down /\ At(w, "precheck") /\ ~HasGroup(w) /\ PreCheckPassed(w)
    \/ \E w \in Workers : wk[w].store_down /\ OpenSharedEntered(w)
    \/ \E w \in Workers : wk[w].store_down /\ OpenSharedUnavailable(w)
    \/ \E w \in Workers : wk[w].store_down /\ AdmitNoGroup(w)
    \/ \E w \in Workers : wk[w].store_down /\ FinishNoGroup(w)

SpecOutage == Init /\ [][NextOutage]_vars

(* C32: when the store becomes unreachable during process_pending_runs, the  *)
(* exception leaves process_pending_runs and the worker exits non-zero: a    *)
(* call in which a database call raised never returns its stats.             *)
C32_StoreErrorPropagates ==
    \A w \in Workers : wk[w].store_error => ~At(w, "done")

(* C31: every transition of a post - started, completed, failed - is         *)
(* appended as a run event before or alongside the status write: no status   *)
(* of a post is committed without the matching event in the audit trail.     *)
C31_StatusWriteHasEvent ==
    \A p \in Posts :
        LET Logged(type) == \E e \in events : e.post = p /\ e.type = type
        IN /\ status[p] = "RUNNING" => Logged("RUN_STARTED")
           /\ status[p] = "FAILED" => Logged("RUN_FAILED")
           /\ status[p] = "SUCCESS" => Logged("RUN_COMPLETED")

\* the posts whose asset the upload state file records as delivered to the
\* post's platform (has_successful_upload); nothing in execute_run's reach
\* adds a record, the Publisher never being called
Delivered == {2}

(* C35: when the upload state already records a successful delivery of the   *)
(* job's asset to the platform, execute_run does not upload again and the    *)
(* job resolves to SUCCESS: the attempt that reaches the Publisher call for  *)
(* such a job, its driver connected, ends with the post SUCCESS and the      *)
(* result "skipped".                                                         *)
C35_DeliveredResolvesSuccess ==
    [][\A w \in Workers :
          (/\ At(w, "workflow") /\ RunId(w) \in Delivered
           /\ wk'[w] # wk[w]
           \* the step is not a failure to connect the driver
           /\ wk'[w].failed_at # "connect") =>
              /\ status'[RunId(w)] = "SUCCESS"
              /\ wk'[w].result = "skipped"]_vars

====
